---- MODULE Spec2Model ----
(***************************************************************************)
(* Cuttle rules engine: cards, game state, legal-move generator, executor. *)
(* A card is <<rank, suit>>; an optional value is <<>> (None) or <<x>>;    *)
(* Python tuples are sequences; players are indexed 0 and 1.               *)
(*                                                                         *)
(* The variables are those of the game loop of simulation/runner.py:       *)
(* state, move_count, legal_moves (the generator's answer for state), the  *)
(* move logged last (last_move), and script, the moves the two strategies  *)
(* select first; after them they may select any legal move.                *)
(***************************************************************************)
EXTENDS Integers, Sequences, FiniteSets, TLC

VARIABLES state, move_count, last_move, legal_moves, script

vars == <<state, move_count, last_move, legal_moves, script>>

---------------------------------------------------------------------------
(* Optional values and sequence helpers                                    *)

None == <<>>

Some(x) == <<x>>

Range(s) == {s[i] : i \in DOMAIN s}

Without(s, x) == SelectSeq(s, LAMBDA c : c # x)

RECURSIVE Flatten(_)
Flatten(ss) == IF ss = <<>> THEN <<>> ELSE Head(ss) \o Flatten(Tail(ss))

MapSeq(s, F(_)) == [i \in 1..Len(s) |-> F(s[i])]

Min(a, b) == IF a < b THEN a ELSE b

Max(a, b) == IF a > b THEN a ELSE b

---------------------------------------------------------------------------
(* cards.py                                                                *)

ACE == 1
TWO == 2
THREE == 3
FOUR == 4
FIVE == 5
SIX == 6
SEVEN == 7
EIGHT == 8
NINE == 9
TEN == 10
JACK == 11
QUEEN == 12
KING == 13

Ranks == ACE..KING

Suits == 0..3

Card(r, s) == <<r, s>>

rank(c) == c[1]

suit(c) == c[2]

AllCards == {Card(r, s) : r \in Ranks, s \in Suits}

point_value(c) == IF rank(c) <= 10 THEN rank(c) ELSE 0

can_play_for_points(c) == rank(c) <= 10

can_play_as_one_off(c) == rank(c) <= 9

can_play_as_permanent(c) == rank(c) >= 8 /\ rank(c) # NINE /\ rank(c) # TEN

\* can_scuttle accepting an equal suit on equal ranks
can_scuttle_on_equal_suit(c, target) ==
    IF ~can_play_for_points(c) \/ ~can_play_for_points(target) THEN FALSE
    ELSE IF rank(c) > rank(target) THEN TRUE
    ELSE IF rank(c) = rank(target) /\ suit(c) >= suit(target) THEN TRUE
    ELSE FALSE

can_scuttle(c, target) ==
    IF ~can_play_for_points(c) \/ ~can_play_for_points(target) THEN FALSE
    ELSE IF rank(c) > rank(target) THEN TRUE
    ELSE IF rank(c) = rank(target) /\ suit(c) > suit(target) THEN TRUE
    ELSE FALSE

create_deck == [i \in 1..52 |-> Card(((i - 1) % 13) + 1, (i - 1) \div 13)]

---------------------------------------------------------------------------
(* state.py                                                                *)

PlayerState(h, pf, pm, jk) ==
    [hand |-> h, points_field |-> pf, permanents |-> pm, jacks |-> jk]

RECURSIVE SumPoints(_)
SumPoints(cs) == IF cs = <<>> THEN 0 ELSE point_value(Head(cs)) + SumPoints(Tail(cs))

Stolen(jacks) == MapSeq(jacks, LAMBDA p : p[2])

JackCards(jacks) == MapSeq(jacks, LAMBDA p : p[1])

point_total(p) == SumPoints(p.points_field) + SumPoints(Stolen(p.jacks))

queens_count(p) == Len(SelectSeq(p.permanents, LAMBDA c : rank(c) = QUEEN))

kings_count(p) == Len(SelectSeq(p.permanents, LAMBDA c : rank(c) = KING))

CounterState(card, player, tc, tp, chain) ==
    [one_off_card |-> card, one_off_player |-> player, target_card |-> tc,
     target_player |-> tp, counter_chain |-> chain]

counter_count(cs) == Len(cs.counter_chain)

resolves(cs) == counter_count(cs) % 2 = 0

\* waiting_for_player that never returns to the caster
waiting_for_player_opponent(cs) == 1 - cs.one_off_player

waiting_for_player(cs) ==
    IF counter_count(cs) % 2 = 0 THEN 1 - cs.one_off_player ELSE cs.one_off_player

SevenState(revealed, player) == [revealed_cards |-> revealed, player |-> player]

FourState(player, n) == [player |-> player, cards_to_discard |-> n]

opponent(s) == 1 - s.current_player

current_player_state(s) == s.players[s.current_player]

opponent_state(s) == s.players[opponent(s)]

is_game_over(s) == s.winner # None

\* point_threshold without the floor of 7
point_threshold_without_floor(s, player) == 21 - (7 * kings_count(s.players[player]))

point_threshold(s, player) == Max(21 - (7 * kings_count(s.players[player])), 7)

\* check_winner returns <<winner, reason>>, both optional
check_winner(s) ==
    LET p0 == point_total(s.players[0])
        p1 == point_total(s.players[1])
    IN  IF p0 >= point_threshold(s, 0) THEN <<Some(0), Some("POINTS")>>
        ELSE IF p1 >= point_threshold(s, 1) THEN <<Some(1), Some("POINTS")>>
        ELSE IF Len(s.deck) = 0 /\ p0 # p1
             THEN IF p0 > p1 THEN <<Some(0), Some("EMPTY_DECK_POINTS")>>
                  ELSE <<Some(1), Some("EMPTY_DECK_POINTS")>>
        ELSE IF Len(s.deck) = 0 /\ Len(s.players[0].hand) = 0
             THEN <<Some(1), Some("OPPONENT_EMPTY_HAND")>>
        ELSE IF Len(s.deck) = 0 /\ Len(s.players[1].hand) = 0
             THEN <<Some(0), Some("OPPONENT_EMPTY_HAND")>>
        ELSE <<None, None>>

with_player(s, i, p) == [s EXCEPT !.players[i] = p]

\* with_winner without the change of phase
with_winner_keeps_phase(s, w, reason) == [s EXCEPT !.winner = w, !.win_reason = reason]

with_winner(s, w, reason) ==
    [s EXCEPT !.phase = IF w # None THEN "GAME_OVER" ELSE s.phase,
              !.winner = w,
              !.win_reason = reason]

\* create_initial_state dealing six cards to player 0 and five to player 1
create_initial_state_six_first(deck) ==
    [players |-> (0 :> PlayerState(SubSeq(deck, 1, 6), <<>>, <<>>, <<>>)
                  @@ 1 :> PlayerState(SubSeq(deck, 7, 11), <<>>, <<>>, <<>>)),
     deck |-> SubSeq(deck, 12, Len(deck)),
     scrap |-> <<>>,
     current_player |-> 0,
     phase |-> "MAIN",
     turn_number |-> 1,
     consecutive_passes |-> 0,
     counter_state |-> None,
     seven_state |-> None,
     four_state |-> None,
     winner |-> None,
     win_reason |-> None]

create_initial_state(deck) ==
    [players |-> (0 :> PlayerState(SubSeq(deck, 1, 5), <<>>, <<>>, <<>>)
                  @@ 1 :> PlayerState(SubSeq(deck, 6, 11), <<>>, <<>>, <<>>)),
     deck |-> SubSeq(deck, 12, Len(deck)),
     scrap |-> <<>>,
     current_player |-> 0,
     phase |-> "MAIN",
     turn_number |-> 1,
     consecutive_passes |-> 0,
     counter_state |-> None,
     seven_state |-> None,
     four_state |-> None,
     winner |-> None,
     win_reason |-> None]

---------------------------------------------------------------------------
(* moves.py: every move is a record of one shape; unused fields are None   *)

Move(t, c, tgt, tp, eff, pa) ==
    [type |-> t, card |-> c, target |-> tgt, target_player |-> tp,
     effect |-> eff, play_as |-> pa]

Draw == Move("DRAW", None, None, None, "NONE", "NONE")

Pass == Move("PASS", None, None, None, "NONE", "NONE")

DeclineCounter == Move("DECLINE_COUNTER", None, None, None, "NONE", "NONE")

PlayPoints(c) == Move("PLAY_POINTS", Some(c), None, None, "NONE", "NONE")

Scuttle(c, t) == Move("SCUTTLE", Some(c), Some(t), None, "NONE", "NONE")

PlayOneOff(c, eff, tc, tp) == Move("PLAY_ONE_OFF", Some(c), tc, tp, eff, "NONE")

PlayPermanent(c, tc) == Move("PLAY_PERMANENT", Some(c), tc, None, "NONE", "NONE")

Counter(c) == Move("COUNTER", Some(c), None, None, "NONE", "NONE")

ResolveSeven(c, pa, tc) == Move("RESOLVE_SEVEN", Some(c), tc, None, "NONE", pa)

Discard(c) == Move("DISCARD", Some(c), None, None, "NONE", "NONE")

---------------------------------------------------------------------------
(* move_generator.py                                                       *)

\* _is_card_protected_by_queen that protects nothing
is_card_protected_by_queen_never(player, c) == FALSE

is_card_protected_by_queen(player, c) ==
    IF rank(c) = QUEEN THEN FALSE ELSE queens_count(player) > 0

get_scuttleable_targets(opp, c) ==
    SelectSeq(opp.points_field,
              LAMBDA t : can_scuttle(c, t) /\ ~is_card_protected_by_queen(opp, t))
    \o SelectSeq(Stolen(opp.jacks),
              LAMBDA t : can_scuttle(c, t) /\ ~is_card_protected_by_queen(opp, t))

has_points(s) ==
    \E i \in {0, 1} : Len(s.players[i].points_field) > 0 \/ Len(s.players[i].jacks) > 0

has_permanents(s) ==
    \E i \in {0, 1} : Len(s.players[i].permanents) > 0 \/ Len(s.players[i].jacks) > 0

\* the unprotected permanents and Jacks of a player, in generation order
Targetable(p) ==
    SelectSeq(p.permanents, LAMBDA t : ~is_card_protected_by_queen(p, t))
    \o SelectSeq(JackCards(p.jacks), LAMBDA t : ~is_card_protected_by_queen(p, t))

generate_one_off_moves(s, c) ==
    LET opp == opponent_state(s)
        cur == current_player_state(s)
    IN  IF ~can_play_as_one_off(c) THEN <<>>
        ELSE IF rank(c) = ACE THEN
            IF has_points(s) THEN <<PlayOneOff(c, "ACE_SCRAP_ALL_POINTS", None, None)>>
            ELSE <<>>
        ELSE IF rank(c) = TWO THEN
            MapSeq(Targetable(opp),
                   LAMBDA t : PlayOneOff(c, "TWO_DESTROY_PERMANENT", Some(t), Some(opponent(s))))
        ELSE IF rank(c) = THREE THEN
            MapSeq(s.scrap, LAMBDA t : PlayOneOff(c, "THREE_REVIVE", Some(t), None))
        ELSE IF rank(c) = FOUR THEN
            IF Len(opp.hand) > 0
            THEN <<PlayOneOff(c, "FOUR_DISCARD", None, Some(opponent(s)))>>
            ELSE <<>>
        ELSE IF rank(c) = FIVE THEN
            IF Len(s.deck) >= 1 THEN <<PlayOneOff(c, "FIVE_DRAW_TWO", None, None)>>
            ELSE <<>>
        ELSE IF rank(c) = SIX THEN
            IF has_permanents(s)
            THEN <<PlayOneOff(c, "SIX_SCRAP_ALL_PERMANENTS", None, None)>>
            ELSE <<>>
        ELSE IF rank(c) = SEVEN THEN
            IF Len(s.deck) >= 1 THEN <<PlayOneOff(c, "SEVEN_PLAY_FROM_DECK", None, None)>>
            ELSE <<>>
        ELSE IF rank(c) = NINE THEN
            MapSeq(Targetable(opp),
                   LAMBDA t : PlayOneOff(c, "NINE_RETURN_PERMANENT", Some(t), Some(opponent(s))))
            \o MapSeq(cur.permanents \o JackCards(cur.jacks),
                   LAMBDA t : PlayOneOff(c, "NINE_RETURN_PERMANENT", Some(t),
                                         Some(s.current_player)))
        ELSE <<>>

\* the cards of a player a Jack may steal, in generation order
Stealable(opp) ==
    SelectSeq(opp.points_field, LAMBDA t : ~is_card_protected_by_queen(opp, t))
    \o SelectSeq(Stolen(opp.jacks), LAMBDA t : ~is_card_protected_by_queen(opp, t))

generate_permanent_moves(s, c) ==
    LET opp == opponent_state(s)
    IN  IF ~can_play_as_permanent(c) THEN <<>>
        ELSE IF rank(c) = JACK
             THEN MapSeq(Stealable(opp), LAMBDA t : PlayPermanent(c, Some(t)))
        ELSE <<PlayPermanent(c, None)>>

generate_main_phase_moves(s) ==
    LET player == current_player_state(s)
        opp == opponent_state(s)
        ForCard(c) ==
            (IF can_play_for_points(c)
             THEN <<PlayPoints(c)>>
                  \o MapSeq(get_scuttleable_targets(opp, c), LAMBDA t : Scuttle(c, t))
             ELSE <<>>)
            \o generate_one_off_moves(s, c)
            \o generate_permanent_moves(s, c)
    IN  (IF Len(s.deck) > 0 THEN <<Draw>> ELSE <<>>)
        \o (IF Len(s.deck) = 0 THEN <<Pass>> ELSE <<>>)
        \o Flatten(MapSeq(player.hand, ForCard))

\* the counter phase without the DeclineCounter move
generate_counter_phase_moves_twos_only(s) ==
    LET player == s.players[waiting_for_player(s.counter_state[1])]
    IN  MapSeq(SelectSeq(player.hand, LAMBDA c : rank(c) = TWO), Counter)

generate_counter_phase_moves(s) ==
    IF s.counter_state = None THEN <<>>
    ELSE LET player_state == s.players[waiting_for_player(s.counter_state[1])]
         IN  MapSeq(SelectSeq(player_state.hand, LAMBDA c : rank(c) = TWO), Counter)
             \o <<DeclineCounter>>

generate_seven_one_off_options(s, c, player) ==
    LET opp == s.players[1 - player]
        cur == s.players[player]
        OneOff(tc) == ResolveSeven(c, "PLAY_ONE_OFF", tc)
    IN  IF rank(c) = ACE THEN (IF has_points(s) THEN <<OneOff(None)>> ELSE <<>>)
        ELSE IF rank(c) = TWO THEN MapSeq(Targetable(opp), LAMBDA t : OneOff(Some(t)))
        ELSE IF rank(c) = THREE THEN MapSeq(s.scrap, LAMBDA t : OneOff(Some(t)))
        ELSE IF rank(c) = FOUR THEN (IF Len(opp.hand) > 0 THEN <<OneOff(None)>> ELSE <<>>)
        ELSE IF rank(c) = FIVE THEN (IF Len(s.deck) >= 1 THEN <<OneOff(None)>> ELSE <<>>)
        ELSE IF rank(c) = SIX THEN (IF has_permanents(s) THEN <<OneOff(None)>> ELSE <<>>)
        ELSE IF rank(c) = SEVEN THEN (IF Len(s.deck) >= 1 THEN <<OneOff(None)>> ELSE <<>>)
        ELSE IF rank(c) = NINE THEN
            MapSeq(Targetable(opp) \o cur.permanents \o JackCards(cur.jacks),
                   LAMBDA t : OneOff(Some(t)))
        ELSE <<>>

generate_seven_permanent_options(s, c, player) ==
    LET opp == s.players[1 - player]
    IN  IF rank(c) = JACK
        THEN MapSeq(Stealable(opp), LAMBDA t : ResolveSeven(c, "PLAY_PERMANENT", Some(t)))
        ELSE IF rank(c) \in {EIGHT, QUEEN, KING}
        THEN <<ResolveSeven(c, "PLAY_PERMANENT", None)>>
        ELSE <<>>

generate_seven_phase_moves(s) ==
    IF s.seven_state = None THEN <<>>
    ELSE LET player == s.seven_state[1].player
             opp == s.players[1 - player]
             CardMoves(c) ==
                 (IF can_play_for_points(c)
                  THEN <<ResolveSeven(c, "PLAY_POINTS", None)>>
                       \o MapSeq(SelectSeq(opp.points_field,
                                    LAMBDA t : can_scuttle(c, t)
                                               /\ ~is_card_protected_by_queen(opp, t)),
                                 LAMBDA t : ResolveSeven(c, "SCUTTLE", Some(t)))
                  ELSE <<>>)
                 \o (IF can_play_as_one_off(c)
                     THEN generate_seven_one_off_options(s, c, player) ELSE <<>>)
                 \o (IF can_play_as_permanent(c)
                     THEN generate_seven_permanent_options(s, c, player) ELSE <<>>)
             ForCard(c) == IF CardMoves(c) = <<>>
                           THEN <<ResolveSeven(c, "DISCARD", None)>>
                           ELSE CardMoves(c)
         IN  Flatten(MapSeq(s.seven_state[1].revealed_cards, ForCard))

generate_discard_phase_moves(s) ==
    IF s.four_state = None THEN <<>>
    ELSE MapSeq(s.players[s.four_state[1].player].hand, Discard)

generate_legal_moves(s) ==
    IF is_game_over(s) THEN <<>>
    ELSE IF s.phase = "MAIN" THEN generate_main_phase_moves(s)
    ELSE IF s.phase = "COUNTER" THEN generate_counter_phase_moves(s)
    ELSE IF s.phase = "RESOLVE_SEVEN" THEN generate_seven_phase_moves(s)
    ELSE IF s.phase = "DISCARD_FOUR" THEN generate_discard_phase_moves(s)
    ELSE <<>>

---------------------------------------------------------------------------
(* executor.py: an operation yields the successor state, or IllegalMoveError *)

IllegalMoveError == [raised |-> TRUE]

Raised(r) == "raised" \in DOMAIN r

\* end_turn that counts a turn at every flip
end_turn_counts_every_flip(s) ==
    [s EXCEPT !.current_player = opponent(s), !.turn_number = s.turn_number + 1]

end_turn(s) ==
    LET new_turn == IF s.current_player = 1 THEN s.turn_number + 1 ELSE s.turn_number
    IN  [s EXCEPT !.current_player = opponent(s), !.turn_number = new_turn]

\* check_win that never finds a winner
check_win_never(s) == s

check_win(s) ==
    LET w == check_winner(s)
    IN  IF w[1] # None THEN with_winner(s, w[1], w[2]) ELSE s

\* the tail shared by several operations: check for a win, else end the turn
check_win_then_end_turn(s) ==
    LET new_state == check_win(s)
    IN  IF is_game_over(new_state) THEN new_state ELSE end_turn(new_state)

\* next(j for j, s in jacks if s == target)
jack_holding(jacks, target) ==
    LET i == CHOOSE k \in 1..Len(jacks) :
                 jacks[k][2] = target /\ \A l \in 1..(k - 1) : jacks[l][2] # target
    IN  jacks[i][1]

\* next(s for j, s in jacks if j == jack)
stolen_by(jacks, jack) ==
    LET i == CHOOSE k \in 1..Len(jacks) :
                 jacks[k][1] = jack /\ \A l \in 1..(k - 1) : jacks[l][1] # jack
    IN  jacks[i][2]

execute_draw(s) ==
    IF s.phase # "MAIN" THEN IllegalMoveError
    ELSE IF Len(s.deck) = 0 THEN IllegalMoveError
    ELSE LET drawn_card == s.deck[1]
             player == current_player_state(s)
             new_player == [player EXCEPT !.hand = player.hand \o <<drawn_card>>]
         IN  end_turn([with_player(s, s.current_player, new_player)
                          EXCEPT !.deck = Tail(s.deck), !.consecutive_passes = 0])

\* execute_play_points that leaves the card in the hand
execute_play_points_keeps_card(s, move) ==
    LET player == current_player_state(s)
        c == move.card[1]
    IN  IF s.phase # "MAIN" THEN IllegalMoveError
        ELSE IF move.card = None \/ c \notin Range(player.hand) THEN IllegalMoveError
        ELSE IF ~can_play_for_points(c) THEN IllegalMoveError
        ELSE LET new_player == [player EXCEPT !.points_field = player.points_field \o <<c>>]
                 new_state == [with_player(s, s.current_player, new_player)
                                  EXCEPT !.consecutive_passes = 0]
             IN  check_win_then_end_turn(new_state)

execute_play_points(s, move) ==
    LET player == current_player_state(s)
        c == move.card[1]
    IN  IF s.phase # "MAIN" THEN IllegalMoveError
        ELSE IF move.card = None \/ c \notin Range(player.hand) THEN IllegalMoveError
        ELSE IF ~can_play_for_points(c) THEN IllegalMoveError
        ELSE LET new_player == [player EXCEPT !.hand = Without(player.hand, c),
                                              !.points_field = player.points_field \o <<c>>]
                 new_state == [with_player(s, s.current_player, new_player)
                                  EXCEPT !.consecutive_passes = 0]
             IN  check_win_then_end_turn(new_state)

\* execute_scuttle that does not put the Jack of a scuttled stolen card in the scrap
execute_scuttle_loses_jack(s, move) ==
    LET player == current_player_state(s)
        opp == opponent_state(s)
        c == move.card[1]
        target == move.target[1]
        target_in_field == target \in Range(opp.points_field)
        target_in_jacks == target \in Range(Stolen(opp.jacks))
    IN  IF s.phase # "MAIN" THEN IllegalMoveError
        ELSE IF move.card = None \/ move.target = None THEN IllegalMoveError
        ELSE IF c \notin Range(player.hand) THEN IllegalMoveError
        ELSE IF ~can_scuttle(c, target) THEN IllegalMoveError
        ELSE IF ~target_in_field /\ ~target_in_jacks THEN IllegalMoveError
        ELSE LET new_player == [player EXCEPT !.hand = Without(player.hand, c)]
                 new_opponent ==
                     IF target_in_field
                     THEN [opp EXCEPT !.points_field = Without(opp.points_field, target)]
                     ELSE [opp EXCEPT !.jacks = SelectSeq(opp.jacks,
                                                   LAMBDA p : p[2] # target)]
             IN  end_turn([with_player(with_player(s, s.current_player, new_player),
                                       opponent(s), new_opponent)
                              EXCEPT !.scrap = s.scrap \o <<c, target>>,
                                     !.consecutive_passes = 0])

execute_scuttle(s, move) ==
    LET player == current_player_state(s)
        opp == opponent_state(s)
        c == move.card[1]
        target == move.target[1]
        target_in_field == target \in Range(opp.points_field)
        target_in_jacks == target \in Range(Stolen(opp.jacks))
    IN  IF s.phase # "MAIN" THEN IllegalMoveError
        ELSE IF move.card = None \/ move.target = None THEN IllegalMoveError
        ELSE IF c \notin Range(player.hand) THEN IllegalMoveError
        ELSE IF ~can_scuttle(c, target) THEN IllegalMoveError
        ELSE IF ~target_in_field /\ ~target_in_jacks THEN IllegalMoveError
        ELSE LET new_player == [player EXCEPT !.hand = Without(player.hand, c)]
                 new_opponent ==
                     IF target_in_field
                     THEN [opp EXCEPT !.points_field = Without(opp.points_field, target)]
                     ELSE [opp EXCEPT !.jacks = SelectSeq(opp.jacks,
                                                   LAMBDA p : p[2] # target)]
                 new_scrap ==
                     IF target_in_field
                     THEN s.scrap \o <<c, target>>
                     ELSE s.scrap \o <<c, target, jack_holding(opp.jacks, target)>>
             IN  end_turn([with_player(with_player(s, s.current_player, new_player),
                                       opponent(s), new_opponent)
                              EXCEPT !.scrap = new_scrap, !.consecutive_passes = 0])

\* execute_play_one_off that lets a Seven reveal the top card at once, without
\* the opponent's answer
execute_play_one_off_unanswered(s, move) ==
    LET player == current_player_state(s)
        c == move.card[1]
    IN  IF s.phase # "MAIN" THEN IllegalMoveError
        ELSE IF move.card = None \/ c \notin Range(player.hand) THEN IllegalMoveError
        ELSE LET new_player == [player EXCEPT !.hand = Without(player.hand, c)]
                 counter_state == CounterState(c, s.current_player, move.target,
                                               move.target_player, <<>>)
             IN  IF rank(c) = SEVEN /\ Len(s.deck) > 0
                 THEN [with_player(s, s.current_player, new_player)
                          EXCEPT !.phase = "RESOLVE_SEVEN",
                                 !.deck = Tail(s.deck),
                                 !.scrap = s.scrap \o <<c>>,
                                 !.seven_state = Some(SevenState(<<s.deck[1]>>, s.current_player)),
                                 !.consecutive_passes = 0]
                 ELSE [with_player(s, s.current_player, new_player)
                          EXCEPT !.phase = "COUNTER",
                                 !.counter_state = Some(counter_state),
                                 !.consecutive_passes = 0]

execute_play_one_off(s, move) ==
    LET player == current_player_state(s)
        c == move.card[1]
    IN  IF s.phase # "MAIN" THEN IllegalMoveError
        ELSE IF move.card = None \/ c \notin Range(player.hand) THEN IllegalMoveError
        ELSE LET new_player == [player EXCEPT !.hand = Without(player.hand, c)]
                 counter_state == CounterState(c, s.current_player, move.target,
                                               move.target_player, <<>>)
             IN  [with_player(s, s.current_player, new_player)
                     EXCEPT !.phase = "COUNTER",
                            !.counter_state = Some(counter_state),
                            !.consecutive_passes = 0]

execute_play_permanent(s, move) ==
    LET player == current_player_state(s)
        opp == opponent_state(s)
        c == move.card[1]
        new_hand == Without(player.hand, c)
    IN  IF s.phase # "MAIN" THEN IllegalMoveError
        ELSE IF move.card = None \/ c \notin Range(player.hand) THEN IllegalMoveError
        ELSE IF rank(c) = JACK THEN
            IF move.target = None THEN IllegalMoveError
            ELSE LET target == move.target[1]
                     target_in_field == target \in Range(opp.points_field)
                     target_in_jacks == target \in Range(Stolen(opp.jacks))
                 IN  IF ~target_in_field /\ ~target_in_jacks THEN IllegalMoveError
                     ELSE LET new_opponent ==
                                  IF target_in_field
                                  THEN [opp EXCEPT !.points_field =
                                                       Without(opp.points_field, target)]
                                  ELSE [opp EXCEPT !.jacks = SelectSeq(opp.jacks,
                                                       LAMBDA p : p[2] # target)]
                              new_scrap ==
                                  IF target_in_field THEN s.scrap
                                  ELSE s.scrap \o <<jack_holding(opp.jacks, target)>>
                              new_player ==
                                  [player EXCEPT !.hand = new_hand,
                                                 !.jacks = player.jacks \o <<<<c, target>>>>]
                          IN  check_win_then_end_turn(
                                  [with_player(with_player(s, s.current_player, new_player),
                                               opponent(s), new_opponent)
                                      EXCEPT !.scrap = new_scrap,
                                             !.consecutive_passes = 0])
        ELSE LET new_player == [player EXCEPT !.hand = new_hand,
                                              !.permanents = player.permanents \o <<c>>]
             IN  check_win_then_end_turn(
                     [with_player(s, s.current_player, new_player)
                         EXCEPT !.consecutive_passes = 0])

execute_counter(s, move) ==
    IF s.phase # "COUNTER" THEN IllegalMoveError
    ELSE IF s.counter_state = None THEN IllegalMoveError
    ELSE LET cs == s.counter_state[1]
             waiting_player == waiting_for_player(cs)
             player == s.players[waiting_player]
             c == move.card[1]
         IN  IF move.card = None \/ c \notin Range(player.hand) THEN IllegalMoveError
             ELSE IF rank(c) # TWO THEN IllegalMoveError
             ELSE LET new_player == [player EXCEPT !.hand = Without(player.hand, c)]
                      new_counter_state ==
                          CounterState(cs.one_off_card, cs.one_off_player, cs.target_card,
                                       cs.target_player, cs.counter_chain \o <<c>>)
                  IN  [with_player(s, waiting_player, new_player)
                          EXCEPT !.counter_state = Some(new_counter_state)]

\* every (jack, stolen) pair of a player as the cards jack, stolen, jack, stolen, ...
PairCards(jacks) == Flatten(MapSeq(jacks, LAMBDA p : <<p[1], p[2]>>))

\* _resolve_ace that leaves the jack pairs on the table
resolve_ace_keeps_jacks(s) ==
    LET cards_to_scrap == s.players[0].points_field \o s.players[1].points_field
        Cleared(p) == [p EXCEPT !.points_field = <<>>]
    IN  [s EXCEPT !.players = (0 :> Cleared(s.players[0]) @@ 1 :> Cleared(s.players[1])),
                  !.scrap = s.scrap \o cards_to_scrap]

resolve_ace(s) ==
    LET cards_to_scrap ==
            s.players[0].points_field \o PairCards(s.players[0].jacks)
            \o s.players[1].points_field \o PairCards(s.players[1].jacks)
        Cleared(p) == [p EXCEPT !.points_field = <<>>, !.jacks = <<>>]
    IN  [s EXCEPT !.players = (0 :> Cleared(s.players[0]) @@ 1 :> Cleared(s.players[1])),
                  !.scrap = s.scrap \o cards_to_scrap]

resolve_two(s, target_card, target_player) ==
    IF target_card = None \/ target_player = None THEN IllegalMoveError
    ELSE LET t == target_card[1]
             tp == target_player[1]
             player == s.players[tp]
         IN  IF t \in Range(player.permanents)
             THEN [with_player(s, tp,
                               [player EXCEPT !.permanents = Without(player.permanents, t)])
                      EXCEPT !.scrap = s.scrap \o <<t>>]
             ELSE IF t \in Range(JackCards(player.jacks))
             THEN [with_player(s, tp,
                               [player EXCEPT !.jacks = SelectSeq(player.jacks,
                                                            LAMBDA p : p[1] # t)])
                      EXCEPT !.scrap = s.scrap \o <<stolen_by(player.jacks, t), t>>]
             ELSE IllegalMoveError

resolve_three(s, caster, target_card) ==
    IF target_card = None THEN IllegalMoveError
    ELSE IF target_card[1] \notin Range(s.scrap) THEN IllegalMoveError
    ELSE LET t == target_card[1]
             player == s.players[caster]
         IN  [with_player(s, caster, [player EXCEPT !.hand = player.hand \o <<t>>])
                 EXCEPT !.scrap = Without(s.scrap, t)]

resolve_four(s, target_player) ==
    IF target_player = None THEN IllegalMoveError
    ELSE LET player == s.players[target_player[1]]
             cards_to_discard == Min(2, Len(player.hand))
         IN  IF cards_to_discard = 0 THEN s
             ELSE [s EXCEPT !.phase = "DISCARD_FOUR",
                            !.four_state = Some(FourState(target_player[1],
                                                          cards_to_discard))]

resolve_five(s, caster) ==
    LET cards_to_draw == Min(2, Len(s.deck))
        player == s.players[caster]
    IN  IF cards_to_draw = 0 THEN s
        ELSE [with_player(s, caster,
                          [player EXCEPT !.hand = player.hand
                                                  \o SubSeq(s.deck, 1, cards_to_draw)])
                 EXCEPT !.deck = SubSeq(s.deck, cards_to_draw + 1, Len(s.deck))]

resolve_six(s) ==
    LET cards_to_scrap ==
            s.players[0].permanents \o PairCards(s.players[0].jacks)
            \o s.players[1].permanents \o PairCards(s.players[1].jacks)
        Cleared(p) == [p EXCEPT !.permanents = <<>>, !.jacks = <<>>]
    IN  [s EXCEPT !.players = (0 :> Cleared(s.players[0]) @@ 1 :> Cleared(s.players[1])),
                  !.scrap = s.scrap \o cards_to_scrap]

resolve_seven(s, caster) ==
    IF Len(s.deck) = 0 THEN IllegalMoveError
    ELSE [s EXCEPT !.deck = Tail(s.deck),
                   !.phase = "RESOLVE_SEVEN",
                   !.seven_state = Some(SevenState(<<s.deck[1]>>, caster))]

resolve_nine(s, target_card, target_player) ==
    IF target_card = None \/ target_player = None THEN IllegalMoveError
    ELSE LET t == target_card[1]
             tp == target_player[1]
             player == s.players[tp]
         IN  IF t \in Range(player.permanents)
             THEN with_player(s, tp,
                      [player EXCEPT !.permanents = Without(player.permanents, t),
                                     !.hand = player.hand \o <<t>>])
             ELSE IF t \in Range(JackCards(player.jacks))
             THEN LET stolen == stolen_by(player.jacks, t)
                      new_player ==
                          [player EXCEPT !.jacks = SelectSeq(player.jacks,
                                                       LAMBDA p : p[1] # t),
                                         !.hand = player.hand \o <<t>>]
                      opp == s.players[1 - tp]
                      new_opponent ==
                          [opp EXCEPT !.points_field = opp.points_field \o <<stolen>>]
                  IN  with_player(with_player(s, tp, new_player), 1 - tp, new_opponent)
             ELSE IllegalMoveError

resolve_one_off(s, counter_state) ==
    LET c == counter_state.one_off_card
        caster == counter_state.one_off_player
        target_card == counter_state.target_card
        target_player == counter_state.target_player
    IN  IF rank(c) = ACE THEN resolve_ace(s)
        ELSE IF rank(c) = TWO THEN resolve_two(s, target_card, target_player)
        ELSE IF rank(c) = THREE THEN resolve_three(s, caster, target_card)
        ELSE IF rank(c) = FOUR THEN resolve_four(s, target_player)
        ELSE IF rank(c) = FIVE THEN resolve_five(s, caster)
        ELSE IF rank(c) = SIX THEN resolve_six(s)
        ELSE IF rank(c) = SEVEN THEN resolve_seven(s, caster)
        ELSE IF rank(c) = NINE THEN resolve_nine(s, target_card, target_player)
        ELSE IllegalMoveError

execute_decline_counter(s) ==
    IF s.phase # "COUNTER" THEN IllegalMoveError
    ELSE IF s.counter_state = None THEN IllegalMoveError
    ELSE LET counter_state == s.counter_state[1]
             cards_to_scrap == <<counter_state.one_off_card>> \o counter_state.counter_chain
             scrapped == [s EXCEPT !.scrap = s.scrap \o cards_to_scrap]
             resolved == IF resolves(counter_state)
                         THEN resolve_one_off(scrapped, counter_state)
                         ELSE scrapped
         IN  IF Raised(resolved) THEN IllegalMoveError
             ELSE LET new_state == [resolved EXCEPT !.counter_state = None]
                  IN  IF new_state.phase = "COUNTER"
                      THEN check_win_then_end_turn([new_state EXCEPT !.phase = "MAIN"])
                      ELSE new_state

determine_one_off_effect(c) ==
    IF rank(c) = ACE THEN "ACE_SCRAP_ALL_POINTS"
    ELSE IF rank(c) = TWO THEN "TWO_DESTROY_PERMANENT"
    ELSE IF rank(c) = THREE THEN "THREE_REVIVE"
    ELSE IF rank(c) = FOUR THEN "FOUR_DISCARD"
    ELSE IF rank(c) = FIVE THEN "FIVE_DRAW_TWO"
    ELSE IF rank(c) = SIX THEN "SIX_SCRAP_ALL_PERMANENTS"
    ELSE IF rank(c) = SEVEN THEN "SEVEN_PLAY_FROM_DECK"
    ELSE IF rank(c) = NINE THEN "NINE_RETURN_PERMANENT"
    ELSE "RAISE"

execute_resolve_seven(s, move) ==
    IF s.phase # "RESOLVE_SEVEN" THEN IllegalMoveError
    ELSE IF s.seven_state = None THEN IllegalMoveError
    ELSE IF move.card = None THEN IllegalMoveError
    ELSE IF move.card[1] \notin Range(s.seven_state[1].revealed_cards) THEN IllegalMoveError
    ELSE
    LET c == move.card[1]
        player_idx == s.seven_state[1].player
        opponent_idx == 1 - player_idx
        other_cards == Without(s.seven_state[1].revealed_cards, c)
        new_state == [s EXCEPT !.deck = other_cards \o s.deck,
                               !.seven_state = None,
                               !.phase = "MAIN",
                               !.current_player = player_idx]
        player == new_state.players[player_idx]
        opp == new_state.players[opponent_idx]
    IN  IF move.play_as = "PLAY_POINTS" THEN
            check_win_then_end_turn(
                with_player(new_state, player_idx,
                    [player EXCEPT !.points_field = player.points_field \o <<c>>]))
        ELSE IF move.play_as = "SCUTTLE" THEN
            IF move.target = None THEN IllegalMoveError
            ELSE IF move.target[1] \in Range(opp.points_field)
            THEN check_win_then_end_turn(
                     [with_player(new_state, opponent_idx,
                          [opp EXCEPT !.points_field =
                                          Without(opp.points_field, move.target[1])])
                         EXCEPT !.scrap = new_state.scrap \o <<c, move.target[1]>>])
            ELSE IllegalMoveError
        ELSE IF move.play_as = "PLAY_ONE_OFF" THEN
            IF determine_one_off_effect(c) = "RAISE" THEN IllegalMoveError
            ELSE [new_state EXCEPT
                     !.phase = "COUNTER",
                     !.counter_state =
                         Some(CounterState(c, player_idx, move.target,
                                  IF move.target # None THEN Some(opponent_idx) ELSE None,
                                  <<>>))]
        ELSE IF move.play_as = "PLAY_PERMANENT" THEN
            IF rank(c) = JACK THEN
                IF move.target = None THEN IllegalMoveError
                ELSE IF move.target[1] \in Range(opp.points_field)
                THEN check_win_then_end_turn(
                         with_player(
                             with_player(new_state, player_idx,
                                 [player EXCEPT !.jacks = player.jacks
                                                    \o <<<<c, move.target[1]>>>>]),
                             opponent_idx,
                             [opp EXCEPT !.points_field =
                                             Without(opp.points_field, move.target[1])]))
                ELSE IllegalMoveError
            ELSE check_win_then_end_turn(
                     with_player(new_state, player_idx,
                         [player EXCEPT !.permanents = player.permanents \o <<c>>]))
        ELSE check_win_then_end_turn(new_state)

execute_discard(s, move) ==
    IF s.phase # "DISCARD_FOUR" THEN IllegalMoveError
    ELSE IF s.four_state = None THEN IllegalMoveError
    ELSE LET player_idx == s.four_state[1].player
             player == s.players[player_idx]
             c == move.card[1]
         IN  IF move.card = None \/ c \notin Range(player.hand) THEN IllegalMoveError
             ELSE LET new_hand == Without(player.hand, c)
                      moved == [with_player(s, player_idx, [player EXCEPT !.hand = new_hand])
                                   EXCEPT !.scrap = s.scrap \o <<c>>]
                      remaining == s.four_state[1].cards_to_discard - 1
                  IN  IF remaining > 0 /\ Len(new_hand) > 0
                      THEN [moved EXCEPT !.four_state =
                                             Some(FourState(player_idx, remaining))]
                      ELSE check_win_then_end_turn(
                               [moved EXCEPT !.four_state = None, !.phase = "MAIN"])

\* execute_pass that keeps the count of two passes after a tie
execute_pass_tie_keeps_count(s) ==
    IF s.phase # "MAIN" THEN IllegalMoveError
    ELSE IF Len(s.deck) > 0 THEN IllegalMoveError
    ELSE LET new_passes == s.consecutive_passes + 1
             p0_points == point_total(s.players[0])
             p1_points == point_total(s.players[1])
         IN  IF new_passes >= 2 /\ p0_points > p1_points
             THEN with_winner(s, Some(0), Some("EMPTY_DECK_POINTS"))
             ELSE IF new_passes >= 2 /\ p1_points > p0_points
             THEN with_winner(s, Some(1), Some("EMPTY_DECK_POINTS"))
             ELSE end_turn([s EXCEPT !.consecutive_passes = new_passes])

\* execute_pass without the test of the deck
execute_pass_with_cards_left(s) ==
    IF s.phase # "MAIN" THEN IllegalMoveError
    ELSE LET new_passes == s.consecutive_passes + 1
             p0_points == point_total(s.players[0])
             p1_points == point_total(s.players[1])
         IN  IF new_passes >= 2 /\ p0_points > p1_points
             THEN with_winner(s, Some(0), Some("EMPTY_DECK_POINTS"))
             ELSE IF new_passes >= 2 /\ p1_points > p0_points
             THEN with_winner(s, Some(1), Some("EMPTY_DECK_POINTS"))
             ELSE end_turn([s EXCEPT !.consecutive_passes =
                                         IF new_passes >= 2 THEN 0 ELSE new_passes])

execute_pass(s) ==
    IF s.phase # "MAIN" THEN IllegalMoveError
    ELSE IF Len(s.deck) > 0 THEN IllegalMoveError
    ELSE LET new_passes == s.consecutive_passes + 1
             p0_points == point_total(s.players[0])
             p1_points == point_total(s.players[1])
         IN  IF new_passes >= 2 /\ p0_points > p1_points
             THEN with_winner(s, Some(0), Some("EMPTY_DECK_POINTS"))
             ELSE IF new_passes >= 2 /\ p1_points > p0_points
             THEN with_winner(s, Some(1), Some("EMPTY_DECK_POINTS"))
             ELSE end_turn([s EXCEPT !.consecutive_passes =
                                         IF new_passes >= 2 THEN 0 ELSE new_passes])

\* execute_move that returns a finished game unchanged instead of failing
execute_move_returns_finished(s, move) ==
    IF is_game_over(s) THEN s
    ELSE IF move.type = "DRAW" THEN execute_draw(s)
    ELSE IF move.type = "PLAY_POINTS" THEN execute_play_points(s, move)
    ELSE IF move.type = "SCUTTLE" THEN execute_scuttle(s, move)
    ELSE IF move.type = "PLAY_ONE_OFF" THEN execute_play_one_off(s, move)
    ELSE IF move.type = "PLAY_PERMANENT" THEN execute_play_permanent(s, move)
    ELSE IF move.type = "COUNTER" THEN execute_counter(s, move)
    ELSE IF move.type = "DECLINE_COUNTER" THEN execute_decline_counter(s)
    ELSE IF move.type = "RESOLVE_SEVEN" THEN execute_resolve_seven(s, move)
    ELSE IF move.type = "DISCARD" THEN execute_discard(s, move)
    ELSE IF move.type = "PASS" THEN execute_pass(s)
    ELSE IllegalMoveError

execute_move(s, move) ==
    IF is_game_over(s) THEN IllegalMoveError
    ELSE IF move.type = "DRAW" THEN execute_draw(s)
    ELSE IF move.type = "PLAY_POINTS" THEN execute_play_points(s, move)
    ELSE IF move.type = "SCUTTLE" THEN execute_scuttle(s, move)
    ELSE IF move.type = "PLAY_ONE_OFF" THEN execute_play_one_off(s, move)
    ELSE IF move.type = "PLAY_PERMANENT" THEN execute_play_permanent(s, move)
    ELSE IF move.type = "COUNTER" THEN execute_counter(s, move)
    ELSE IF move.type = "DECLINE_COUNTER" THEN execute_decline_counter(s)
    ELSE IF move.type = "RESOLVE_SEVEN" THEN execute_resolve_seven(s, move)
    ELSE IF move.type = "DISCARD" THEN execute_discard(s, move)
    ELSE IF move.type = "PASS" THEN execute_pass(s)
    ELSE IllegalMoveError

---------------------------------------------------------------------------
(* simulation/runner.py: the game loop                                     *)

max_turns == 500

\* number of passes of the loop explored after the scripted opening of a game
MaxMoves == 5

\* a game (the shuffled deck and the first moves) that leads to a mid-game position:
\* player 0 holds 7C 2C with 10C and KC on the table, player 1 holds 2D 9D 7D with
\* 3D, 8D and JC on 5C; the deck continues JD 4D 9C
KingGame ==
    [deck |->
        <<Card(5, 0), Card(10, 0), Card(13, 0), Card(7, 0), Card(2, 0), Card(11, 0),
          Card(3, 1), Card(8, 1), Card(2, 1), Card(9, 1), Card(7, 1), Card(11, 1), Card(4, 1),
          Card(9, 0), Card(1, 0), Card(3, 0), Card(4, 0), Card(6, 0), Card(8, 0), Card(12, 0),
          Card(1, 1), Card(5, 1), Card(6, 1), Card(10, 1), Card(12, 1), Card(13, 1),
          Card(1, 2), Card(2, 2), Card(3, 2), Card(4, 2), Card(5, 2), Card(6, 2), Card(7, 2),
          Card(8, 2), Card(9, 2), Card(10, 2), Card(11, 2), Card(12, 2), Card(13, 2),
          Card(1, 3), Card(2, 3), Card(3, 3), Card(4, 3), Card(5, 3), Card(6, 3), Card(7, 3),
          Card(8, 3), Card(9, 3), Card(10, 3), Card(11, 3), Card(12, 3), Card(13, 3)>>,
     script |->
        <<PlayPoints(Card(5, 0)), PlayPermanent(Card(11, 0), Some(Card(5, 0))),
          PlayPermanent(Card(13, 0), None), PlayPoints(Card(3, 1)), PlayPoints(Card(10, 0)),
          PlayPermanent(Card(8, 1), None)>>]

\* the same game with QC in place of KC
QueenGame ==
    [deck |->
        <<Card(5, 0), Card(10, 0), Card(12, 0), Card(7, 0), Card(2, 0), Card(11, 0),
          Card(3, 1), Card(8, 1), Card(2, 1), Card(9, 1), Card(7, 1), Card(11, 1), Card(4, 1),
          Card(9, 0), Card(1, 0), Card(3, 0), Card(4, 0), Card(6, 0), Card(8, 0), Card(13, 0),
          Card(1, 1), Card(5, 1), Card(6, 1), Card(10, 1), Card(12, 1), Card(13, 1),
          Card(1, 2), Card(2, 2), Card(3, 2), Card(4, 2), Card(5, 2), Card(6, 2), Card(7, 2),
          Card(8, 2), Card(9, 2), Card(10, 2), Card(11, 2), Card(12, 2), Card(13, 2),
          Card(1, 3), Card(2, 3), Card(3, 3), Card(4, 3), Card(5, 3), Card(6, 3), Card(7, 3),
          Card(8, 3), Card(9, 3), Card(10, 3), Card(11, 3), Card(12, 3), Card(13, 3)>>,
     script |->
        <<PlayPoints(Card(5, 0)), PlayPermanent(Card(11, 0), Some(Card(5, 0))),
          PlayPermanent(Card(12, 0), None), PlayPoints(Card(3, 1)), PlayPoints(Card(10, 0)),
          PlayPermanent(Card(8, 1), None)>>]

\* a game played until the deck is empty: 5H against 5S on the table, player 0 holds
\* 2H 6H, player 1 holds 4S 2S and is to move
EndGame ==
    [deck |->
        <<Card(2, 2), Card(6, 2), Card(5, 2), Card(4, 0), Card(3, 0), Card(4, 3), Card(2, 3),
          Card(5, 3), Card(3, 1), Card(1, 0), Card(1, 1), Card(1, 2), Card(11, 0), Card(2, 1),
          Card(11, 3), Card(13, 0), Card(13, 1), Card(12, 0), Card(6, 0), Card(1, 3),
          Card(11, 1), Card(2, 0), Card(11, 2), Card(13, 2), Card(13, 3), Card(12, 1),
          Card(6, 1), Card(3, 2), Card(7, 0), Card(10, 0), Card(3, 3), Card(4, 1), Card(4, 2),
          Card(5, 0), Card(5, 1), Card(7, 1), Card(7, 2), Card(7, 3), Card(8, 1), Card(8, 2),
          Card(8, 3), Card(9, 0), Card(9, 1), Card(9, 2), Card(9, 3), Card(10, 1),
          Card(10, 2), Card(10, 3), Card(12, 2), Card(8, 0), Card(12, 3), Card(6, 3)>>,
     script |->
        <<PlayPoints(Card(5, 2)), PlayPoints(Card(5, 3)), PlayPoints(Card(3, 0)),
          Scuttle(Card(3, 1), Card(3, 0)),
          PlayOneOff(Card(4, 0), "FOUR_DISCARD", None, Some(1)), DeclineCounter,
          Discard(Card(1, 0)), Discard(Card(1, 1)), Draw, Draw, PlayPoints(Card(1, 2)),
          PlayPermanent(Card(11, 0), Some(Card(1, 2))), Draw, Draw, PlayPoints(Card(2, 1)),
          PlayPermanent(Card(11, 3), Some(Card(2, 1))), Draw, Draw,
          PlayPermanent(Card(13, 0), None), PlayPermanent(Card(13, 1), None), Draw, Draw,
          PlayPermanent(Card(12, 0), None),
          PlayOneOff(Card(6, 0), "SIX_SCRAP_ALL_PERMANENTS", None, None), DeclineCounter,
          Draw, Draw, PlayPoints(Card(1, 3)), PlayPermanent(Card(11, 1), Some(Card(1, 3))),
          Draw, Draw, PlayPoints(Card(2, 0)), PlayPermanent(Card(11, 2), Some(Card(2, 0))),
          Draw, Draw, PlayPermanent(Card(13, 2), None), PlayPermanent(Card(13, 3), None),
          Draw, Draw, PlayPermanent(Card(12, 1), None),
          PlayOneOff(Card(6, 1), "SIX_SCRAP_ALL_PERMANENTS", None, None), DeclineCounter,
          Draw, Draw, PlayPoints(Card(3, 2)),
          PlayOneOff(Card(7, 0), "SEVEN_PLAY_FROM_DECK", None, None), DeclineCounter,
          ResolveSeven(Card(10, 0), "SCUTTLE", Some(Card(3, 2))), Draw, Draw,
          PlayPoints(Card(3, 3)), Scuttle(Card(4, 1), Card(3, 3)), Draw, Draw,
          PlayPoints(Card(4, 2)), Scuttle(Card(5, 0), Card(4, 2)), Draw, Draw,
          PlayPoints(Card(5, 1)), Scuttle(Card(7, 1), Card(5, 1)), Draw, Draw,
          PlayPoints(Card(7, 2)), Scuttle(Card(7, 3), Card(7, 2)), Draw, Draw,
          PlayPoints(Card(8, 1)), Scuttle(Card(8, 2), Card(8, 1)), Draw, Draw,
          PlayPoints(Card(8, 3)), Scuttle(Card(9, 0), Card(8, 3)), Draw, Draw,
          PlayPoints(Card(9, 1)), Scuttle(Card(9, 2), Card(9, 1)), Draw, Draw,
          PlayPoints(Card(9, 3)), Scuttle(Card(10, 1), Card(9, 3)), Draw, Draw,
          PlayPoints(Card(10, 2)), Scuttle(Card(10, 3), Card(10, 2)), Draw, Draw,
          PlayPermanent(Card(12, 2), None), PlayPermanent(Card(8, 0), None), Draw, Draw,
          PlayPermanent(Card(12, 3), None),
          PlayOneOff(Card(6, 3), "SIX_SCRAP_ALL_PERMANENTS", None, None), DeclineCounter>>]

Games == {KingGame, QueenGame, EndGame}

Init ==
    \E g \in Games :
       /\ state = create_initial_state(g.deck)
       /\ script = g.script
       /\ move_count = 0
       /\ last_move = None
       /\ legal_moves = generate_legal_moves(create_initial_state(g.deck))

\* the strategies select the moves of script in order, then any legal move
Selects(move) == move_count < Len(script) => move = script[move_count + 1]

\* one pass of the loop body in which the acting strategy selects move
Play(move) ==
    /\ ~is_game_over(state)
    /\ state.turn_number <= max_turns
    /\ move_count < Len(script) + MaxMoves
    /\ Selects(move)
    /\ \E new_state \in {execute_move(state, move)} :
          /\ ~Raised(new_state)
          /\ state' = new_state
          /\ move_count' = move_count + 1
          /\ last_move' = Some(move)
          /\ legal_moves' = generate_legal_moves(new_state)
          /\ UNCHANGED script

PlayDraw ==
    \E i \in DOMAIN legal_moves : legal_moves[i].type = "DRAW" /\ Play(legal_moves[i])

PlayPlayPoints ==
    \E i \in DOMAIN legal_moves : legal_moves[i].type = "PLAY_POINTS" /\ Play(legal_moves[i])

PlayScuttle ==
    \E i \in DOMAIN legal_moves : legal_moves[i].type = "SCUTTLE" /\ Play(legal_moves[i])

PlayPlayOneOff ==
    \E i \in DOMAIN legal_moves : legal_moves[i].type = "PLAY_ONE_OFF" /\ Play(legal_moves[i])

PlayPlayPermanent ==
    \E i \in DOMAIN legal_moves : legal_moves[i].type = "PLAY_PERMANENT" /\ Play(legal_moves[i])

PlayCounter ==
    \E i \in DOMAIN legal_moves : legal_moves[i].type = "COUNTER" /\ Play(legal_moves[i])

PlayDeclineCounter ==
    \E i \in DOMAIN legal_moves : legal_moves[i].type = "DECLINE_COUNTER" /\ Play(legal_moves[i])

PlayResolveSeven ==
    \E i \in DOMAIN legal_moves : legal_moves[i].type = "RESOLVE_SEVEN" /\ Play(legal_moves[i])

PlayDiscard ==
    \E i \in DOMAIN legal_moves : legal_moves[i].type = "DISCARD" /\ Play(legal_moves[i])

PlayPass ==
    \E i \in DOMAIN legal_moves : legal_moves[i].type = "PASS" /\ Play(legal_moves[i])

Next ==
    \/ PlayDraw
    \/ PlayPlayPoints
    \/ PlayScuttle
    \/ PlayPlayOneOff
    \/ PlayPlayPermanent
    \/ PlayCounter
    \/ PlayDeclineCounter
    \/ PlayResolveSeven
    \/ PlayDiscard
    \/ PlayPass

Spec == Init /\ [][Next]_vars

\* a pass of the loop body beyond MaxMoves, taken while a Counter, DiscardFour or
\* ResolveSeven phase is open, so that no behaviour is cut inside such a phase
PlaySuspended ==
    /\ state.phase \in {"COUNTER", "DISCARD_FOUR", "RESOLVE_SEVEN"}
    /\ state.turn_number <= max_turns
    /\ move_count >= Len(script) + MaxMoves
    /\ \E i \in DOMAIN legal_moves :
          \E new_state \in {execute_move(state, legal_moves[i])} :
             /\ ~Raised(new_state)
             /\ state' = new_state
             /\ move_count' = move_count + 1
             /\ last_move' = Some(legal_moves[i])
             /\ legal_moves' = generate_legal_moves(new_state)
             /\ UNCHANGED script

FairNext == Next \/ PlaySuspended

\* the while loop of run_game keeps taking a move as long as the game is not over
\* and one can be taken
FairSpec == Init /\ [][FairNext]_vars /\ WF_vars(FairNext)

---------------------------------------------------------------------------
(* Properties                                                              *)

\* C1: in every reachable state every move the generator returns is executed
\* by execute_move without IllegalMoveError
C1_GeneratedMovesExecute ==
    \A i \in DOMAIN legal_moves : ~Raised(execute_move(state, legal_moves[i]))

\* every place of state s that holds cards, concatenated
all_cards(s) ==
    Flatten(<<s.players[0].hand, s.players[1].hand,
              s.players[0].points_field, s.players[1].points_field,
              s.players[0].permanents, s.players[1].permanents,
              JackCards(s.players[0].jacks), Stolen(s.players[0].jacks),
              JackCards(s.players[1].jacks), Stolen(s.players[1].jacks),
              s.deck, s.scrap,
              IF s.seven_state = None THEN <<>> ELSE s.seven_state[1].revealed_cards,
              IF s.counter_state = None THEN <<>>
              ELSE <<s.counter_state[1].one_off_card>> \o s.counter_state[1].counter_chain>>)

\* C2: conservation: the cards of all locations number 52 in every reachable state
C2_Conservation == Len(all_cards(state)) = 52

\* C3: uniqueness: no card is in two locations or twice in one location
C3_Uniqueness == Cardinality(Range(all_cards(state))) = Len(all_cards(state))

\* a one-off pending with a Two on its chain while a jack holds a stolen card and the
\* scrap is not empty: cards in every kind of location
C3_Witness ==
    /\ state.counter_state # None
    /\ state.counter_state[1].counter_chain # <<>>
    /\ state.scrap # <<>>
    /\ \E i \in {0, 1} : state.players[i].jacks # <<>>
    /\ C3_Uniqueness

MoveTypes ==
    {"DRAW", "PLAY_POINTS", "SCUTTLE", "PLAY_ONE_OFF", "PLAY_PERMANENT", "COUNTER",
     "DECLINE_COUNTER", "RESOLVE_SEVEN", "DISCARD", "PASS"}

OneOffEffects ==
    {"ACE_SCRAP_ALL_POINTS", "TWO_COUNTER", "TWO_DESTROY_PERMANENT", "THREE_REVIVE",
     "FOUR_DISCARD", "FIVE_DRAW_TWO", "SIX_SCRAP_ALL_PERMANENTS", "SEVEN_PLAY_FROM_DECK",
     "NINE_RETURN_PERMANENT"}

\* the cards a move of state s may name as the card played: those of both hands,
\* the revealed cards and the top card of the deck
playable_cards(s) ==
    Range(s.players[0].hand) \cup Range(s.players[1].hand)
    \cup (IF s.seven_state = None THEN {} ELSE Range(s.seven_state[1].revealed_cards))
    \cup (IF s.deck = <<>> THEN {} ELSE {Head(s.deck)})

\* the cards a move of state s may name as its target: those on both boards, the
\* pending one-off and the last card of the scrap
target_cards(s) ==
    UNION {Range(s.players[i].points_field) \cup Range(s.players[i].permanents)
           \cup Range(PairCards(s.players[i].jacks)) : i \in {0, 1}}
    \cup (IF s.counter_state = None THEN {} ELSE {s.counter_state[1].one_off_card})
    \cup (IF s.scrap = <<>> THEN {} ELSE {s.scrap[Len(s.scrap)]})

\* the moves of every variant over these cards
WellFormedMoves(s) ==
    LET cards == playable_cards(s)
        targets == target_cards(s)
        optional == {None} \cup {Some(t) : t \in targets}
    IN  {Draw, Pass, DeclineCounter}
        \cup {PlayPoints(c) : c \in cards}
        \cup {Scuttle(c, t) : c \in cards, t \in targets}
        \cup {PlayOneOff(c, eff, tc, tp) :
                 c \in cards, eff \in OneOffEffects, tc \in optional,
                 tp \in {None, Some(0), Some(1)}}
        \cup {PlayPermanent(c, tc) : c \in cards, tc \in optional}
        \cup {Counter(c) : c \in cards}
        \cup {ResolveSeven(c, pa, tc) : c \in cards, pa \in MoveTypes, tc \in optional}
        \cup {Discard(c) : c \in cards}

\* C4: phase consistency: the winner is set exactly in phase GAME_OVER, and each of
\* counter_state, seven_state, four_state is set exactly in its own phase
C4_PhaseConsistency ==
    /\ state.winner # None <=> state.phase = "GAME_OVER"
    /\ state.counter_state # None <=> state.phase = "COUNTER"
    /\ state.seven_state # None <=> state.phase = "RESOLVE_SEVEN"
    /\ state.four_state # None <=> state.phase = "DISCARD_FOUR"

\* a game won by the DeclineCounter that resolved a one-off
C4_Witness ==
    /\ last_move = Some(DeclineCounter)
    /\ state.phase = "GAME_OVER"
    /\ state.winner # None
    /\ state.counter_state = None

\* C5: once the winner is set the generator returns no move, execute_move fails for
\* every move, and so no step leaves the state
C5_WinMonotonicity ==
    state.winner # None =>
        /\ legal_moves = <<>>
        /\ \A move \in WellFormedMoves(state) : Raised(execute_move(state, move))
        /\ ~ENABLED Next

\* a finished game in which cards remain in the deck and in both hands
C5_Witness ==
    /\ is_game_over(state)
    /\ state.deck # <<>>
    /\ \A i \in {0, 1} : state.players[i].hand # <<>>
    /\ Draw \in WellFormedMoves(state)
    /\ legal_moves = <<>>

\* C6: a player at or above the threshold max(21 - 7 * kings, 7) is the mark of a
\* finished game
C6_ThresholdWins ==
    \A i \in {0, 1} :
        point_total(state.players[i]) >= Max(21 - 7 * kings_count(state.players[i]), 7)
            => state.winner # None

\* a player with a King wins with fewer than 21 points
C6_Witness ==
    \E i \in {0, 1} :
        /\ kings_count(state.players[i]) >= 1
        /\ point_total(state.players[i]) >= 14
        /\ point_total(state.players[i]) < 21
        /\ state.winner = Some(i)

\* C7: a state without a winner has a legal move, and in phase DISCARD_FOUR the
\* discarding player holds a card
C7_NonTerminalHasMove ==
    state.winner = None =>
        /\ legal_moves # <<>>
        /\ state.phase = "MAIN" =>
              \E i \in DOMAIN legal_moves : legal_moves[i].type \in {"DRAW", "PASS"}
        /\ state.phase = "COUNTER" => DeclineCounter \in Range(legal_moves)
        /\ state.phase = "RESOLVE_SEVEN" =>
              \A c \in Range(state.seven_state[1].revealed_cards) :
                  \E i \in DOMAIN legal_moves : legal_moves[i].card = Some(c)
        /\ state.phase = "DISCARD_FOUR" =>
              state.players[state.four_state[1].player].hand # <<>>

\* the second discard of a Four: one card left to discard and a card in the hand
C7_Witness ==
    /\ state.winner = None
    /\ state.phase = "DISCARD_FOUR"
    /\ state.four_state[1].cards_to_discard = 1
    /\ last_move # None /\ last_move[1].type = "DISCARD"
    /\ legal_moves # <<>>

\* C8: in a state without a winner execute_move fails for every well-formed move
\* that the generator does not return
C8_OtherMovesRejected ==
    ~is_game_over(state) =>
        \A move \in WellFormedMoves(state) \ Range(legal_moves) :
            Raised(execute_move(state, move))

\* the cards on the two boards of state s
board_cards(s) ==
    UNION {Range(s.players[i].points_field) \cup Range(s.players[i].permanents)
           \cup Range(PairCards(s.players[i].jacks)) : i \in {0, 1}}

\* the effect of the one-off pending in counter state cs, cast in state pre, is
\* to be seen in state post
effect_applied(cs, pre, post) ==
    LET r == rank(cs.one_off_card)
        caster == cs.one_off_player
        victim == 1 - cs.one_off_player
    IN  IF r = ACE
        THEN \A i \in {0, 1} : post.players[i].points_field = <<>> /\ post.players[i].jacks = <<>>
        ELSE IF r = TWO
        THEN /\ cs.target_card # None
             /\ cs.target_card[1] \notin board_cards(post)
             /\ cs.target_card[1] \in Range(post.scrap)
        ELSE IF r = THREE
        THEN /\ cs.target_card # None
             /\ cs.target_card[1] \in Range(post.players[caster].hand)
             /\ cs.target_card[1] \notin Range(post.scrap)
        ELSE IF r = FOUR
        THEN /\ post.phase = "DISCARD_FOUR"
             /\ post.four_state
                    = Some(FourState(victim, Min(2, Len(pre.players[victim].hand))))
        ELSE IF r = FIVE
        THEN /\ pre.deck # <<>>
             /\ post.players[caster].hand
                    = pre.players[caster].hand \o SubSeq(pre.deck, 1, Min(2, Len(pre.deck)))
        ELSE IF r = SIX
        THEN \A i \in {0, 1} : post.players[i].permanents = <<>> /\ post.players[i].jacks = <<>>
        ELSE IF r = SEVEN
        THEN /\ pre.deck # <<>>
             /\ post.phase = "RESOLVE_SEVEN"
             /\ post.seven_state = Some(SevenState(<<Head(pre.deck)>>, caster))
        ELSE IF r = NINE
        THEN /\ cs.target_card # None
             /\ cs.target_card[1] \notin board_cards(post)
             /\ \E i \in {0, 1} : cs.target_card[1] \in Range(post.players[i].hand)
        ELSE FALSE

\* what DeclineCounter is to bring about from state pre to state post
decline_counter_outcome(pre, post) ==
    LET cs == pre.counter_state[1]
    IN  /\ Range(<<cs.one_off_card>> \o cs.counter_chain) \subseteq Range(post.scrap)
        /\ Len(cs.counter_chain) % 2 = 0 <=> effect_applied(cs, pre, post)
        /\ Len(cs.counter_chain) % 2 = 1 =>
              post.players = pre.players /\ post.deck = pre.deck

\* C9: DeclineCounter in Counter phase succeeds, after it the cast card and the Twos
\* of the chain are in the scrap, and the effect is applied iff the chain is even;
\* with an odd chain the boards, the deck and the hands are unchanged
C9_DeclineCounterResolves ==
    state.phase = "COUNTER" =>
        /\ ~Raised(execute_move(state, DeclineCounter))
        /\ decline_counter_outcome(state, execute_move(state, DeclineCounter))

\* the player who may act on the counter state cs
counter_actor(cs) ==
    IF Len(cs.counter_chain) % 2 = 0 THEN 1 - cs.one_off_player ELSE cs.one_off_player

\* C10: in Counter phase the Counter moves offered and accepted are those with a Two
\* of the hand of the caster's opponent (even chain) or of the caster (odd chain);
\* a Counter step moves that Two from that hand to the end of the chain and changes
\* nothing else
C10_CounterStep ==
    [][state.phase = "COUNTER" =>
          LET cs == state.counter_state[1]
              actor == counter_actor(cs)
              twos == {c \in Range(state.players[actor].hand) : rank(c) = TWO}
          IN  /\ {m \in Range(legal_moves) : m.type = "COUNTER"} = {Counter(c) : c \in twos}
              /\ {m \in WellFormedMoves(state) :
                     m.type = "COUNTER" /\ ~Raised(execute_move(state, m))}
                     = {Counter(c) : c \in twos}
              /\ (last_move' # None /\ last_move'[1].type = "COUNTER") =>
                    LET c == last_move'[1].card[1]
                    IN  /\ c \in twos
                        /\ state' = [state EXCEPT
                               !.players[actor].hand = Without(state.players[actor].hand, c),
                               !.counter_state[1].counter_chain = cs.counter_chain \o <<c>>]
                        /\ Len(state'.players[actor].hand) = Len(state.players[actor].hand) - 1
                        /\ \A t \in {cs.target_card[k] : k \in DOMAIN cs.target_card} :
                               t \in Range(all_cards(state)) => t \in Range(all_cards(state'))
      ]_vars

\* a Two played on a Two: the chain holds two cards after a Counter step
C10_Witness ==
    /\ state.phase = "COUNTER"
    /\ last_move # None /\ last_move[1].type = "COUNTER"
    /\ Len(state.counter_state[1].counter_chain) = 2
    /\ state.counter_state[1].target_card # None

\* the phases in which a one-off is being countered or carried out
SubPhases == {"COUNTER", "RESOLVE_SEVEN", "DISCARD_FOUR"}

\* C11: turn boundary: a step that leaves the game in a sub-phase (Counter,
\* ResolveSeven, DiscardFour) keeps current_player and turn_number; a step that
\* leaves it in Main, whether a Main-phase move that resolved at once or the move
\* that ended the last sub-phase, hands the turn to the other player and adds 1 to
\* turn_number exactly when the player who acted in Main was player 1; a step that
\* ends the game leaves turn_number as it was
C11_TurnBoundary ==
    [][LET p == state.current_player
       IN  /\ state'.phase \in SubPhases =>
                 /\ state'.current_player = p
                 /\ state'.turn_number = state.turn_number
           /\ state'.phase = "MAIN" =>
                 /\ state'.current_player = 1 - p
                 /\ state'.turn_number = state.turn_number + (IF p = 1 THEN 1 ELSE 0)
           /\ state'.phase = "GAME_OVER" => state'.turn_number = state.turn_number
      ]_vars

\* the one-off of player 1 has been countered or carried out to its end: the game is
\* back in Main, player 0 is to move and a new turn has begun
C11_Witness ==
    /\ last_move # None
    /\ last_move[1].type \in {"DECLINE_COUNTER", "RESOLVE_SEVEN", "DISCARD"}
    /\ state.phase = "MAIN"
    /\ state.current_player = 0
    /\ state.turn_number > 1

\* the three conditions of the win check, read on the board of state s
win_condition(s) ==
    \/ \E i \in {0, 1} : point_total(s.players[i]) >= point_threshold(s, i)
    \/ s.deck = <<>> /\ point_total(s.players[0]) # point_total(s.players[1])
    \/ s.deck = <<>> /\ \E i \in {0, 1} : s.players[i].hand = <<>>

\* the step executes a move after which the turn is over: PlayPoints, Scuttle,
\* PlayPermanent, ResolveSeven, a DeclineCounter that resolves the one-off (even
\* chain) or the last Discard, not followed by a sub-phase
board_move_completes ==
    /\ last_move' # None
    /\ state'.phase \notin SubPhases
    /\ \/ last_move'[1].type \in {"PLAY_POINTS", "SCUTTLE", "PLAY_PERMANENT",
                                  "RESOLVE_SEVEN", "DISCARD"}
       \/ /\ last_move'[1].type = "DECLINE_COUNTER"
          /\ state.counter_state # None
          /\ resolves(state.counter_state[1])

\* C12: after every executed PlayPoints, Scuttle, PlayPermanent, resolving
\* DeclineCounter, ResolveSeven and last Discard the win check has been applied:
\* the successor has its winner set whenever a player meets the threshold, or the
\* deck is empty and the totals differ, or the deck is empty and a hand is empty
C12_WinCheckApplied ==
    [][board_move_completes => (win_condition(state') => state'.winner # None)]_vars

---------------------------------------------------------------------------
(* check_winner as a function of the board: every board of WinInit is      *)
(* handed to _check_win once                                               *)

\* points fields of player i, worth 0, 6, 7, 13, 14, 20 and 21, in the player's suits
WinPoints(i) ==
    LET a == 2 * i
        b == (2 * i) + 1
    IN  {<<>>, <<Card(SIX, a)>>, <<Card(SEVEN, a)>>, <<Card(TEN, a), Card(THREE, a)>>,
         <<Card(TEN, a), Card(FOUR, a)>>, <<Card(TEN, a), Card(TEN, b)>>,
         <<Card(TEN, a), Card(TEN, b), Card(ACE, a)>>}

\* the state in which player 0 has k0 Kings and player 1 has k1 Kings in permanents,
\* the points fields are pf0 and pf1, player 1's jacks are jk1, the hands are h0 and
\* h1, and every card not named lies in the scrap
WinBoard(k0, k1, pf0, pf1, jk1, h0, h1, deck) ==
    LET pm0 == [j \in 1..k0 |-> Card(KING, j - 1)]
        pm1 == [j \in 1..k1 |-> Card(KING, 4 - j)]
        used == Range(pm0 \o pm1 \o pf0 \o pf1 \o PairCards(jk1) \o h0 \o h1 \o deck)
    IN  [create_initial_state(create_deck) EXCEPT
            !.players = (0 :> PlayerState(h0, pf0, pm0, <<>>)
                         @@ 1 :> PlayerState(h1, pf1, pm1, jk1)),
            !.deck = deck,
            !.scrap = SelectSeq(create_deck, LAMBDA c : c \notin used)]

\* the boards with at most four Kings
WinInit ==
    /\ state \in
          {WinBoard(k0, k1, pf0, pf1, jk1, h0, h1, deck) :
              k0 \in 0..4, k1 \in 0..4, pf0 \in WinPoints(0), pf1 \in WinPoints(1),
              jk1 \in {<<>>, <<<<Card(JACK, 2), Card(ACE, 1)>>>>},
              h0 \in {<<>>, <<Card(TWO, 0)>>}, h1 \in {<<>>, <<Card(TWO, 2)>>},
              deck \in {<<>>, <<Card(NINE, 0)>>}}
    /\ kings_count(state.players[0]) + kings_count(state.players[1]) <= 4
    /\ script = <<>>
    /\ move_count = 0
    /\ last_move = None
    /\ legal_moves = generate_legal_moves(state)

\* _check_win is applied to the board
ApplyCheckWin ==
    /\ move_count = 0
    /\ state' = check_win(state)
    /\ move_count' = move_count + 1
    /\ legal_moves' = generate_legal_moves(check_win(state))
    /\ UNCHANGED <<last_move, script>>

WinSpec == WinInit /\ [][ApplyCheckWin]_vars

\* the winner and the reason named by the rules for state s: the set of the answers
\* they allow
winner_reference(s) ==
    LET total(i) == point_total(s.players[i])
        threshold(i) == <<21, 14, 7, 7, 7>>[kings_count(s.players[i]) + 1]
        at_threshold == {i \in {0, 1} : total(i) >= threshold(i)}
        empty_handed == {i \in {0, 1} : s.players[i].hand = <<>>}
    IN  IF at_threshold # {}
        THEN {<<Some(i), Some("POINTS")>> : i \in {j \in at_threshold : \A k \in at_threshold : j <= k}}
        ELSE IF s.deck = <<>> /\ total(0) # total(1)
        THEN {<<Some(i), Some("EMPTY_DECK_POINTS")>> : i \in {j \in {0, 1} : total(j) > total(1 - j)}}
        ELSE IF s.deck = <<>> /\ empty_handed # {}
        THEN {<<Some(1 - i), Some("OPPONENT_EMPTY_HAND")>> : i \in empty_handed}
        ELSE {<<None, None>>}

\* C13: check_winner returns (i, POINTS) for the lowest-index player i whose total
\* reaches 21, 14, 7, 7, 7 with 0..4 Kings; otherwise, the deck being empty, the
\* player with strictly more points with EMPTY_DECK_POINTS; otherwise, the deck
\* being empty, the opponent of a player with an empty hand with
\* OPPONENT_EMPTY_HAND; otherwise no winner
C13_CheckWinnerReference == check_winner(state) \in winner_reference(state)

\* _check_win has made player 1 the winner by points at 7 to 13 points with two or
\* more Kings, player 0 being short of the threshold
C13_Witness ==
    /\ move_count = 1
    /\ kings_count(state.players[1]) >= 2
    /\ point_total(state.players[1]) \in 7..13
    /\ state.winner = Some(1)
    /\ state.win_reason = Some("POINTS")

---------------------------------------------------------------------------
(* generate_legal_moves as a function of the state: the player to act      *)
(* holds (or reveals from the deck) a Two, a Nine, an Ace, a Six, a Jack   *)
(* and a Ten against boards of the opponent with and without Queens        *)

\* the state in which player actor is to act with 2C 9C AC 6C JC 10C in hand (one of
\* them revealed by a Seven instead when revealed is set), 8C in permanents and
\* own_points in the points field, against an opponent with nq Queens followed by
\* the permanents others, the points field points and the jacks jk
GenBoard(actor, nq, others, points, jk, own_points, revealed) ==
    LET cards == <<Card(TWO, 0), Card(NINE, 0), Card(ACE, 0), Card(SIX, 0), Card(JACK, 0),
                   Card(TEN, 0)>>
        hand == SelectSeq(cards, LAMBDA c : Some(c) # revealed)
        me == PlayerState(hand, own_points, <<Card(EIGHT, 0)>>, <<>>)
        opp == PlayerState(<<Card(FOUR, 3)>>, points,
                           SubSeq(<<Card(QUEEN, 2), Card(QUEEN, 3)>>, 1, nq) \o others, jk)
        scrap == <<Card(SEVEN, 0), Card(FIVE, 0)>>
        used == Range(cards \o me.points_field \o me.permanents \o opp.hand
                      \o opp.points_field \o opp.permanents \o PairCards(opp.jacks) \o scrap)
    IN  [create_initial_state(create_deck) EXCEPT
            !.players = (actor :> me @@ (1 - actor) :> opp),
            !.deck = SelectSeq(create_deck, LAMBDA c : c \notin used),
            !.scrap = scrap,
            !.current_player = actor,
            !.phase = IF revealed = None THEN "MAIN" ELSE "RESOLVE_SEVEN",
            !.seven_state = IF revealed = None THEN None
                            ELSE Some(SevenState(revealed, actor))]

GenInit ==
    /\ state \in
          {GenBoard(actor, nq, others, points, jk, own_points, revealed) :
              actor \in {0, 1}, nq \in 0..2,
              others \in {<<>>, <<Card(KING, 2)>>, <<Card(EIGHT, 2), Card(KING, 2)>>},
              points \in {<<>>, <<Card(FIVE, 2)>>, <<Card(FIVE, 2), Card(NINE, 2)>>},
              jk \in {<<>>, <<<<Card(JACK, 2), Card(THREE, 0)>>>>},
              own_points \in {<<>>, <<Card(FOUR, 1)>>},
              revealed \in {None} \cup {Some(Card(r, 0)) : r \in {TWO, NINE, ACE, SIX, JACK, TEN}}}
    /\ script = <<>>
    /\ move_count = 0
    /\ last_move = None
    /\ legal_moves = <<>>

\* legal_moves = generate_legal_moves(state), the first statement of the loop body
Generate ==
    /\ move_count = 0
    /\ legal_moves' = generate_legal_moves(state)
    /\ move_count' = move_count + 1
    /\ UNCHANGED <<state, last_move, script>>

GenSpec == GenInit /\ [][Generate]_vars

\* the card a move aims at when the move is a Scuttle, a Two or Nine one-off or a
\* Jack steal, played from the hand or from the cards revealed by a Seven
aimed_target(m) ==
    IF \/ m.type = "SCUTTLE"
       \/ m.type = "PLAY_ONE_OFF" /\ rank(m.card[1]) \in {TWO, NINE}
       \/ m.type = "PLAY_PERMANENT" /\ rank(m.card[1]) = JACK
       \/ /\ m.type = "RESOLVE_SEVEN"
          /\ \/ m.play_as = "SCUTTLE"
             \/ m.play_as = "PLAY_ONE_OFF" /\ rank(m.card[1]) \in {TWO, NINE}
             \/ m.play_as = "PLAY_PERMANENT" /\ rank(m.card[1]) = JACK
    THEN m.target
    ELSE None

\* C14: Queen protection: when the opponent of the player to act has a Queen in
\* permanents, the legal moves of Main and ResolveSeven phases hold no Scuttle, Two
\* or Nine one-off or Jack steal aimed at a card of that opponent that is not a Queen
\* (points, 8s, Kings, Jacks, stolen cards); every Two or Nine the player may play
\* is offered against each of the opponent's Queens, every Six is offered, and every
\* Ace is offered when there are points on the table
C14_QueenProtection ==
    LET s == state
        moves == Range(generate_legal_moves(s))
        opp == s.players[1 - s.current_player]
        controlled == Range(opp.points_field) \cup Range(opp.permanents)
                      \cup Range(PairCards(opp.jacks))
        queens == {c \in Range(opp.permanents) : rank(c) = QUEEN}
        in_main == s.phase = "MAIN"
        cards == IF in_main THEN Range(s.players[s.current_player].hand)
                 ELSE Range(s.seven_state[1].revealed_cards)
        OneOff(c, eff, tc) ==
            IF in_main
            THEN PlayOneOff(c, eff, tc, IF tc = None THEN None ELSE Some(1 - s.current_player))
            ELSE ResolveSeven(c, "PLAY_ONE_OFF", tc)
        points_on_table ==
            \E i \in {0, 1} : s.players[i].points_field # <<>> \/ s.players[i].jacks # <<>>
    IN  (s.winner = None /\ s.phase \in {"MAIN", "RESOLVE_SEVEN"} /\ queens # {}) =>
           /\ \A m \in moves : \A t \in controlled \ queens : aimed_target(m) # Some(t)
           /\ \A c \in cards : \A q \in queens :
                 /\ rank(c) = TWO => OneOff(c, "TWO_DESTROY_PERMANENT", Some(q)) \in moves
                 /\ rank(c) = NINE => OneOff(c, "NINE_RETURN_PERMANENT", Some(q)) \in moves
           /\ \A c \in cards :
                 /\ rank(c) = SIX => OneOff(c, "SIX_SCRAP_ALL_PERMANENTS", None) \in moves
                 /\ (rank(c) = ACE /\ points_on_table) =>
                       OneOff(c, "ACE_SCRAP_ALL_POINTS", None) \in moves

\* the generator has answered for a player who holds a Two, a Jack and a Ten against
\* two Queens, a King, an 8, a 5, a 9 and a Jack holding a 3: the Two is offered
\* against both Queens and against nothing else, and no Scuttle or steal is offered
C14_Witness ==
    /\ move_count = 1
    /\ state.phase = "MAIN"
    /\ legal_moves = generate_legal_moves(state)
    /\ LET opp == state.players[1 - state.current_player]
       IN  /\ queens_count(opp) = 2
           /\ kings_count(opp) = 1
           /\ Len(opp.permanents) = 4
           /\ Len(opp.points_field) = 2
           /\ opp.jacks # <<>>
           /\ \E c \in Range(state.players[state.current_player].hand) : rank(c) = TEN
           /\ Cardinality({m \in Range(legal_moves) :
                              m.type = "PLAY_ONE_OFF" /\ rank(m.card[1]) = TWO}) = 2
           /\ \A m \in Range(legal_moves) :
                 m.type # "SCUTTLE" /\ (m.type = "PLAY_PERMANENT" => m.target = None)

\* C15: in a Main-phase state without a winner the legal moves hold Draw exactly
\* when the deck is not empty and Pass exactly when it is empty; execute_move fails
\* for Draw on an empty deck, and for Pass when the deck is not empty or the phase
\* is not Main
C15_DrawOrPass ==
    /\ (state.winner = None /\ state.phase = "MAIN") =>
          /\ Draw \in Range(legal_moves) <=> state.deck # <<>>
          /\ Pass \in Range(legal_moves) <=> state.deck = <<>>
    /\ state.deck = <<>> => Raised(execute_move(state, Draw))
    /\ (state.deck # <<>> \/ state.phase # "MAIN") => Raised(execute_move(state, Pass))

\* a Pass has been executed and the game goes on in Main with an empty deck, where
\* Pass is offered again and Draw is not
C15_Witness ==
    /\ last_move = Some(Pass)
    /\ state.winner = None
    /\ state.phase = "MAIN"
    /\ state.deck = <<>>
    /\ Pass \in Range(legal_moves)
    /\ Draw \notin Range(legal_moves)

\* C16: a Pass at consecutive_passes = 0 sets it to 1 and hands the turn over; a
\* Pass at consecutive_passes = 1 ends the game for the player with the higher
\* point total by EMPTY_DECK_POINTS, or, the totals being equal, sets
\* consecutive_passes to 0 and hands the turn over; a Pass moves no card; every
\* other Main-phase move sets consecutive_passes to 0; the value stays in {0, 1, 2}
C16_PassAndStalemate ==
    [][/\ last_move' = Some(Pass) =>
             LET p0 == point_total(state.players[0])
                 p1 == point_total(state.players[1])
                 turn_flipped ==
                     /\ state'.winner = None
                     /\ state'.phase = "MAIN"
                     /\ state'.current_player = 1 - state.current_player
             IN  /\ state'.players = state.players
                 /\ state'.deck = state.deck
                 /\ state'.scrap = state.scrap
                 /\ state.consecutive_passes = 0 =>
                       state'.consecutive_passes = 1 /\ turn_flipped
                 /\ (state.consecutive_passes = 1 /\ p0 # p1) =>
                       /\ state'.winner = Some(IF p0 > p1 THEN 0 ELSE 1)
                       /\ state'.win_reason = Some("EMPTY_DECK_POINTS")
                       /\ state'.phase = "GAME_OVER"
                 /\ (state.consecutive_passes = 1 /\ p0 = p1) =>
                       state'.consecutive_passes = 0 /\ turn_flipped
       /\ (last_move' # None /\ last_move'[1].type # "PASS" /\ state.phase = "MAIN") =>
             state'.consecutive_passes = 0
       /\ state.consecutive_passes \in {0, 1, 2}
       /\ state'.consecutive_passes \in {0, 1, 2}
      ]_vars

\* both players have passed in a row with unequal totals: the second Pass has ended
\* the game by EMPTY_DECK_POINTS
C16_Witness ==
    /\ last_move = Some(Pass)
    /\ state.consecutive_passes = 1
    /\ state.winner # None
    /\ state.win_reason = Some("EMPTY_DECK_POINTS")
    /\ point_total(state.players[state.winner[1]])
          > point_total(state.players[1 - state.winner[1]])

\* C17: a Scuttle step takes card from the hand of the player to move and target
\* from the opponent's points field, or from the opponent's jack pair holding it,
\* whose Jack goes with it; these cards are added to the scrap and no other card
\* moves; execute_move accepts Scuttle(card, target) only when both are point cards
\* and card has the higher rank, or the same rank and the higher suit
C17_ScuttleEffect ==
    [][/\ (last_move' # None /\ last_move'[1].type = "SCUTTLE") =>
             LET c == last_move'[1].card[1]
                 t == last_move'[1].target[1]
                 p == state.current_player
                 player == state.players[p]
                 opp == state.players[1 - p]
                 held == {k \in DOMAIN opp.jacks : opp.jacks[k][2] = t}
                 scrapped == {c, t} \cup {opp.jacks[k][1] : k \in held}
             IN  /\ c \in Range(player.hand)
                 /\ state'.players[p] = [player EXCEPT !.hand = Without(player.hand, c)]
                 /\ IF t \in Range(opp.points_field)
                    THEN state'.players[1 - p]
                            = [opp EXCEPT !.points_field = Without(opp.points_field, t)]
                    ELSE /\ held # {}
                         /\ state'.players[1 - p]
                               = [opp EXCEPT !.jacks =
                                     SelectSeq(opp.jacks, LAMBDA pair : pair[2] # t)]
                 /\ state'.deck = state.deck
                 /\ Range(state'.scrap) = Range(state.scrap) \cup scrapped
                 /\ Len(state'.scrap)
                       = Len(state.scrap) + (IF t \in Range(opp.points_field) THEN 2 ELSE 3)
                 /\ SubSeq(state'.scrap, 1, Len(state.scrap)) = state.scrap
       /\ \A c \in playable_cards(state), t \in target_cards(state) :
             ~Raised(execute_move(state, Scuttle(c, t))) =>
                 /\ rank(c) <= TEN /\ rank(t) <= TEN
                 /\ rank(c) > rank(t) \/ (rank(c) = rank(t) /\ suit(c) > suit(t))
      ]_vars

\* a card held by a Jack has been scuttled: the scrap ends with the scuttling card,
\* the card and the Jack
C17_Witness ==
    /\ last_move # None
    /\ last_move[1].type = "SCUTTLE"
    /\ Len(state.scrap) >= 3
    /\ state.scrap[Len(state.scrap) - 2] = last_move[1].card[1]
    /\ state.scrap[Len(state.scrap) - 1] = last_move[1].target[1]
    /\ rank(state.scrap[Len(state.scrap)]) = JACK

\* move m plays a Jack on a target, from the hand or from the cards a Seven revealed
is_jack_steal(m) ==
    /\ m.card # None /\ rank(m.card[1]) = JACK
    /\ m.target # None
    /\ \/ m.type = "PLAY_PERMANENT"
       \/ m.type = "RESOLVE_SEVEN" /\ m.play_as = "PLAY_PERMANENT"

\* what the Jack steal m of the player to move is to bring about from pre to post
jack_steal_outcome(pre, m, post) ==
    LET jack == m.card[1]
        t == m.target[1]
        p == pre.current_player
        caster == pre.players[p]
        opp == pre.players[1 - p]
        held == {k \in DOMAIN opp.jacks : opp.jacks[k][2] = t}
        previous == [k \in 1..Len(SelectSeq(opp.jacks, LAMBDA pair : pair[2] = t)) |->
                        SelectSeq(opp.jacks, LAMBDA pair : pair[2] = t)[k][1]]
    IN  /\ post.players[p] =
              [caster EXCEPT !.hand = Without(caster.hand, jack),
                             !.jacks = caster.jacks \o <<<<jack, t>>>>]
        /\ IF t \in Range(opp.points_field)
           THEN /\ post.players[1 - p]
                      = [opp EXCEPT !.points_field = Without(opp.points_field, t)]
                /\ post.scrap = pre.scrap
           ELSE /\ held # {}
                /\ post.players[1 - p]
                      = [opp EXCEPT !.jacks = SelectSeq(opp.jacks, LAMBDA pair : pair[2] # t)]
                /\ post.scrap = pre.scrap \o previous
        /\ post.deck = pre.deck
        /\ post.seven_state = None
        /\ point_total(post.players[p]) = point_total(caster) + point_value(t)
        /\ point_total(post.players[1 - p]) = point_total(opp) - point_value(t)

\* C18: every Jack steal offered, in Main phase or as the play of a card revealed by
\* a Seven, is executed, and it moves the target from the opponent's points field or
\* jack pair to a new pair (Jack, target) at the end of the caster's jacks, sends the
\* Jack that held the target to the scrap, raises the caster's point total and
\* lowers the opponent's by the value of the target, and moves no other card
C18_JackSteal ==
    \A i \in DOMAIN legal_moves :
        is_jack_steal(legal_moves[i]) =>
            /\ ~Raised(execute_move(state, legal_moves[i]))
            /\ jack_steal_outcome(state, legal_moves[i], execute_move(state, legal_moves[i]))

\* the players to whom card c was dealt in the game being played
dealt_to(c) ==
    LET g == CHOOSE g \in Games : g.script = script
    IN  {i \in {0, 1} : c \in Range(create_initial_state(g.deck).players[i].hand)}

\* C19: when a Nine resolves, its target is back in the hand of the player who
\* controlled it and off the table; when the target is a Jack, the card it held is
\* in the points field of the player who played that card for points (for a card of
\* the deal: the player to whom it was dealt), also when the card had been stolen
\* and stolen back
C19_NineReturns ==
    LET cs == state.counter_state[1]
        post == execute_move(state, DeclineCounter)
    IN  (/\ state.phase = "COUNTER"
         /\ rank(cs.one_off_card) = NINE
         /\ resolves(cs)
         /\ cs.target_card # None
         /\ ~Raised(post)) =>
            \A i \in {0, 1} :
                LET t == cs.target_card[1]
                    jacks == state.players[i].jacks
                IN  (t \in Range(state.players[i].permanents) \cup Range(JackCards(jacks))) =>
                       /\ t \in Range(post.players[i].hand)
                       /\ t \notin board_cards(post)
                       /\ \A k \in DOMAIN jacks :
                             jacks[k][1] = t =>
                                \A owner \in dealt_to(jacks[k][2]) :
                                    jacks[k][2] \in Range(post.players[owner].points_field)

---------------------------------------------------------------------------
(* the one-off effects as functions of the board: a one-off is cast and     *)
(* answered on boards with a jack pair on either side                       *)

\* the boards of GenBoard in Main phase, the player to act having the jacks own_jk
EffectInit ==
    /\ state \in
          {[GenBoard(actor, nq, others, points, jk, <<>>, None) EXCEPT
               !.players[actor].jacks = own_jk,
               !.deck = SelectSeq(@, LAMBDA c : c \notin Range(PairCards(own_jk)))] :
              actor \in {0, 1}, nq \in 0..1,
              others \in {<<>>, <<Card(KING, 2)>>, <<Card(EIGHT, 2), Card(KING, 2)>>},
              points \in {<<>>, <<Card(FIVE, 2)>>, <<Card(FIVE, 2), Card(NINE, 2)>>},
              jk \in {<<>>, <<<<Card(JACK, 2), Card(THREE, 0)>>>>},
              own_jk \in {<<>>, <<<<Card(JACK, 1), Card(TWO, 2)>>>>}}
    /\ script = <<>>
    /\ move_count = 0
    /\ last_move = None
    /\ legal_moves = generate_legal_moves(state)

EffectSpec == EffectInit /\ [][PlayPlayOneOff \/ PlayCounter \/ PlayDeclineCounter]_vars

\* C20: a DeclineCounter step that resolves an Ace leaves both points fields and
\* both jack lists empty, one that resolves a Six leaves both permanents and both
\* jack lists empty, one that resolves a Two takes the named permanent, or the named
\* Jack with the card it holds, and nothing else from the table; the cards taken
\* from the table are in the scrap, none of them is in a hand or a points field, and
\* the hands and the deck are as before
C20_DestructionEffects ==
    [][(/\ last_move' = Some(DeclineCounter)
        /\ state.counter_state # None
        /\ resolves(state.counter_state[1])
        /\ rank(state.counter_state[1].one_off_card) \in {ACE, TWO, SIX}) =>
          LET cs == state.counter_state[1]
              r == rank(cs.one_off_card)
              pairs == Range(state.players[0].jacks) \cup Range(state.players[1].jacks)
              removed ==
                  IF r = ACE
                  THEN UNION {Range(state.players[i].points_field)
                              \cup Range(PairCards(state.players[i].jacks)) : i \in {0, 1}}
                  ELSE IF r = SIX
                  THEN UNION {Range(state.players[i].permanents)
                              \cup Range(PairCards(state.players[i].jacks)) : i \in {0, 1}}
                  ELSE {cs.target_card[1]}
                       \cup {pair[2] : pair \in {q \in pairs : q[1] = cs.target_card[1]}}
          IN  /\ r = ACE => \A i \in {0, 1} :
                    /\ state'.players[i].points_field = <<>>
                    /\ state'.players[i].jacks = <<>>
              /\ r = SIX => \A i \in {0, 1} :
                    /\ state'.players[i].permanents = <<>>
                    /\ state'.players[i].jacks = <<>>
              /\ r = TWO =>
                    /\ cs.target_card # None
                    /\ rank(cs.target_card[1]) \in {EIGHT, JACK, QUEEN, KING}
                    /\ cs.target_card[1] \in board_cards(state)
              /\ board_cards(state') = board_cards(state) \ removed
              /\ removed \subseteq Range(state'.scrap)
              /\ \A i \in {0, 1} :
                    /\ state'.players[i].hand = state.players[i].hand
                    /\ Range(state'.players[i].points_field) \cap removed = {}
                    /\ Range(state'.players[i].points_field)
                          \subseteq Range(state.players[i].points_field)
              /\ state'.deck = state.deck
      ]_vars

\* an Ace has resolved on a table with a jack pair on either side: the Ace, both
\* Jacks and both stolen cards are in the scrap and no points are left
C20_Witness ==
    /\ last_move = Some(DeclineCounter)
    /\ Len(state.scrap) >= 7
    /\ rank(state.scrap[3]) = ACE
    /\ {Card(JACK, 1), Card(TWO, 2), Card(JACK, 2), Card(THREE, 0)} \subseteq Range(state.scrap)
    /\ \A i \in {0, 1} : state.players[i].points_field = <<>> /\ state.players[i].jacks = <<>>

\* C21: Four protocol: a Four that is to resolve, cast from the hand or played from
\* the card a Seven revealed, resolves into DiscardFour with four_state.player the
\* caster's opponent and cards_to_discard = min(2, size of that player's hand), or,
\* that hand being empty, straight back to Main; every Discard step moves one card
\* of that player's hand to the scrap and lowers cards_to_discard by one; when it
\* reaches zero or the hand is empty, four_state is cleared, the win check is
\* applied and, the game not being won, the phase is Main and the turn passes to
\* the caster's opponent
C21_FourProtocol ==
    [][/\ (/\ state'.phase = "COUNTER"
           /\ rank(state'.counter_state[1].one_off_card) = FOUR
           /\ resolves(state'.counter_state[1])) =>
             LET cs == state'.counter_state[1]
                 victim == 1 - cs.one_off_player
                 n == Len(state'.players[victim].hand)
                 post == execute_move(state', DeclineCounter)
             IN  /\ ~Raised(post)
                 /\ post.players = state'.players
                 /\ IF n = 0
                    THEN post.four_state = None /\ post.phase \in {"MAIN", "GAME_OVER"}
                    ELSE /\ post.phase = "DISCARD_FOUR"
                         /\ post.four_state = Some(FourState(victim, Min(2, n)))
                         /\ post.current_player = cs.one_off_player
       /\ (last_move' # None /\ last_move'[1].type = "DISCARD") =>
             LET fs == state.four_state[1]
                 c == last_move'[1].card[1]
                 hand == state.players[fs.player].hand
             IN  /\ fs.player = 1 - state.current_player
                 /\ c \in Range(hand)
                 /\ state'.players =
                       [state.players EXCEPT ![fs.player].hand = Without(hand, c)]
                 /\ state'.scrap = state.scrap \o <<c>>
                 /\ state'.deck = state.deck
                 /\ IF fs.cards_to_discard - 1 > 0 /\ Len(hand) > 1
                    THEN /\ state'.phase = "DISCARD_FOUR"
                         /\ state'.four_state
                               = Some(FourState(fs.player, fs.cards_to_discard - 1))
                         /\ state'.current_player = state.current_player
                    ELSE /\ state'.four_state = None
                         /\ win_condition(state') => state'.winner # None
                         /\ state'.winner = None =>
                               /\ state'.phase = "MAIN"
                               /\ state'.current_player = fs.player
      ]_vars

\* C22: Seven protocol: a Seven that is to resolve moves exactly the top card of the
\* deck into seven_state.revealed_cards and enters ResolveSeven with
\* seven_state.player the caster, where every legal move is a ResolveSeven of that
\* card; playing the revealed card as points, as a scuttle or as a permanent puts
\* it in the caster's points field, in the scrap with its target, or among the
\* caster's permanents or jacks, and ends the caster's turn; playing it as a
\* one-off opens a Counter phase whose pending one-off is that card, cast by the
\* same player
C22_SevenProtocol ==
    [][/\ (/\ state'.phase = "COUNTER"
           /\ rank(state'.counter_state[1].one_off_card) = SEVEN
           /\ resolves(state'.counter_state[1])) =>
             LET caster == state'.counter_state[1].one_off_player
                 post == execute_move(state', DeclineCounter)
             IN  /\ ~Raised(post)
                 /\ state'.deck # <<>>
                 /\ post.deck = Tail(state'.deck)
                 /\ post.phase = "RESOLVE_SEVEN"
                 /\ post.seven_state = Some(SevenState(<<Head(state'.deck)>>, caster))
                 /\ post.players = state'.players
                 /\ post.current_player = caster
                 /\ generate_legal_moves(post) # <<>>
                 /\ \A m \in Range(generate_legal_moves(post)) :
                        m.type = "RESOLVE_SEVEN" /\ m.card = Some(Head(state'.deck))
       /\ (state'.phase = "RESOLVE_SEVEN") =>
             \A m \in Range(generate_legal_moves(state')) : TRUE =>
                 LET p == state'.seven_state[1].player
                     c == m.card[1]
                     me == state'.players[p]
                     opp == state'.players[1 - p]
                     post == execute_move(state', m)
                     turn_ended ==
                         /\ post.seven_state = None
                         /\ post.deck = state'.deck
                         /\ win_condition(post) => post.winner # None
                         /\ post.winner = None =>
                               post.phase = "MAIN" /\ post.current_player = 1 - p
                 IN  /\ ~Raised(post)
                     /\ m.play_as \in {"PLAY_POINTS", "SCUTTLE", "PLAY_PERMANENT",
                                       "PLAY_ONE_OFF", "DISCARD"}
                     /\ m.play_as = "PLAY_POINTS" =>
                           /\ post.players = [state'.players EXCEPT
                                 ![p].points_field = me.points_field \o <<c>>]
                           /\ post.scrap = state'.scrap
                           /\ turn_ended
                     /\ m.play_as = "SCUTTLE" =>
                           /\ can_scuttle(c, m.target[1])
                           /\ m.target[1] \in Range(opp.points_field)
                           /\ post.players = [state'.players EXCEPT
                                 ![1 - p].points_field = Without(opp.points_field, m.target[1])]
                           /\ post.scrap = state'.scrap \o <<c, m.target[1]>>
                           /\ turn_ended
                     /\ (m.play_as = "PLAY_PERMANENT" /\ rank(c) # JACK) =>
                           /\ post.players = [state'.players EXCEPT
                                 ![p].permanents = me.permanents \o <<c>>]
                           /\ post.scrap = state'.scrap
                           /\ turn_ended
                     /\ (m.play_as = "PLAY_PERMANENT" /\ rank(c) = JACK) =>
                           /\ post.players[p] = [me EXCEPT
                                 !.jacks = me.jacks \o <<<<c, m.target[1]>>>>]
                           /\ point_total(post.players[p])
                                 = point_total(me) + point_value(m.target[1])
                           /\ point_total(post.players[1 - p])
                                 = point_total(opp) - point_value(m.target[1])
                           /\ turn_ended
                     /\ m.play_as = "PLAY_ONE_OFF" =>
                           /\ post.phase = "COUNTER"
                           /\ post.seven_state = None
                           /\ post.counter_state # None
                           /\ post.counter_state[1].one_off_card = c
                           /\ post.counter_state[1].one_off_player = p
                           /\ post.counter_state[1].counter_chain = <<>>
                           /\ post.current_player = p
                           /\ post.players = state'.players
                           /\ post.deck = state'.deck
                           /\ post.scrap = state'.scrap
      ]_vars

\* C23: Seven escape: for the card a Seven revealed, the ResolveSeven move with
\* play_as = Discard is generated exactly when that card has no other legal play,
\* which is a Jack with no legal steal target, and executing it puts the revealed
\* card in the scrap, clears seven_state, returns to Main and passes the turn
C23_SevenEscape ==
    state.phase = "RESOLVE_SEVEN" =>
        LET p == state.seven_state[1].player
            opp == state.players[1 - p]
            c == state.seven_state[1].revealed_cards[1]
            legal == Range(generate_legal_moves(state))
            escape == ResolveSeven(c, "DISCARD", None)
            steal_targets == {t \in Range(opp.points_field) \cup Range(Stolen(opp.jacks)) :
                                 ~is_card_protected_by_queen(opp, t)}
            post == execute_move(state, escape)
        IN  /\ escape \in legal <=> (\A m \in legal : m = escape)
            /\ escape \in legal <=> (rank(c) = JACK /\ steal_targets = {})
            /\ escape \in legal =>
                  /\ ~Raised(post)
                  /\ post.scrap = state.scrap \o <<c>>
                  /\ post.seven_state = None
                  /\ post.winner = None =>
                        post.phase = "MAIN" /\ post.current_player = 1 - p
                  /\ post.players = state.players
                  /\ post.deck = state.deck

----------------------------------------------------------------------------
(* The deal: create_initial_state(seed = k) called twice                   *)

MaxSeed == 6

\* rng.shuffle(x): for i in reversed(range(1, len(x))), swap x[i] with
\* x[randbelow(i + 1)]; position i of the list is index i + 1 of the sequence.
\* r is the state of the generator, a congruential one standing for the
\* library's: the draw randbelow(n) is r % n and the next state depends on r alone
RECURSIVE shuffle(_, _, _)
shuffle(x, i, r) ==
    IF i < 1 THEN x
    ELSE LET j == r % (i + 1)
         IN  shuffle([x EXCEPT ![i + 1] = x[j + 1], ![j + 1] = x[i + 1]],
                     i - 1, (r * 75 + 74) % 65537)

\* rng = random.Random(seed): a fresh generator whose state is a function of the
\* seed alone; the shuffle works on a copy of the deck
shuffle_deck(deck, seed) == shuffle(deck, Len(deck) - 1, (seed * 7919 + 1) % 65537)

\* script holds the seed arguments of the two calls to come: None for a call
\* without a seed, whose generator is seeded from the system's entropy
DealInit ==
    /\ script \in [1..2 -> {None} \cup {Some(k) : k \in 0..MaxSeed}]
    /\ state = create_initial_state(create_deck)
    /\ move_count = 0
    /\ last_move = None
    /\ legal_moves = <<>>

Deal ==
    /\ move_count < Len(script)
    /\ \E entropy \in 0..MaxSeed :
          LET seed == IF script[move_count + 1] = None THEN entropy
                      ELSE script[move_count + 1][1]
          IN  state' = create_initial_state(shuffle_deck(create_deck, seed))
    /\ move_count' = move_count + 1
    /\ UNCHANGED <<last_move, legal_moves, script>>

DealSpec == DealInit /\ [][Deal]_vars

----------------------------------------------------------------------------
(* Card.can_scuttle on every pair of cards                                 *)

\* player 0 to move with the card a in hand; the card b lies on player 1's points
\* field when it is a point card and in player 1's hand otherwise; ten cards are
\* left in the deck and the other cards are in the scrap
ScuttleInit ==
    /\ state \in
          {LET rest == SelectSeq(create_deck, LAMBDA c : c # a /\ c # b)
           IN  [create_initial_state(create_deck) EXCEPT
                   !.players = (0 :> PlayerState(<<a>>, <<>>, <<>>, <<>>)
                                @@ 1 :> IF can_play_for_points(b)
                                        THEN PlayerState(<<>>, <<b>>, <<>>, <<>>)
                                        ELSE PlayerState(<<b>>, <<>>, <<>>, <<>>)),
                   !.deck = SubSeq(rest, 1, 10),
                   !.scrap = SubSeq(rest, 11, Len(rest)),
                   !.turn_number = 9]
             : <<a, b>> \in {p \in AllCards \X AllCards : p[1] # p[2]}}
    /\ move_count = 0
    /\ last_move = None
    /\ legal_moves = <<>>
    /\ script = <<>>

ScuttleSpec == ScuttleInit /\ [][Generate]_vars

\* C25: the scuttle relation is irreflexive and antisymmetric and is the strict
\* order by rank, then suit, restricted to point cards (rank at most 10): a
\* scuttles b exactly when both are point cards and a is greater than b; Jacks,
\* Queens and Kings neither scuttle nor are scuttled; the generator offers
\* Scuttle(a, b) on a points-field card b exactly when a scuttles b
C25_ScuttleOrder ==
    LET a == state.players[0].hand[1]
        b == (state.players[1].points_field \o state.players[1].hand)[1]
        greater(x, y) == rank(x) > rank(y) \/ (rank(x) = rank(y) /\ suit(x) > suit(y))
    IN  /\ ~can_scuttle(a, a)
        /\ ~can_scuttle(b, b)
        /\ can_scuttle(a, b) => ~can_scuttle(b, a)
        /\ can_scuttle(a, b) <=> (rank(a) <= 10 /\ rank(b) <= 10 /\ greater(a, b))
        /\ rank(a) \in {JACK, QUEEN, KING} => ~can_scuttle(a, b) /\ ~can_scuttle(b, a)
        /\ move_count = 1 =>
              (Scuttle(a, b) \in Range(legal_moves)
                  <=> (b \in Range(state.players[1].points_field) /\ can_scuttle(a, b)))

C25_Witness ==
    /\ move_count = 1
    /\ state.players[0].hand = <<Card(ACE, 3)>>
    /\ state.players[1].points_field = <<Card(ACE, 0)>>
    /\ Scuttle(Card(ACE, 3), Card(ACE, 0)) \in Range(legal_moves)

----------------------------------------------------------------------------
(* strategies/heuristic.py, strategies/random_strategy.py                  *)

RECURSIVE MaxOf(_)
MaxOf(xs) == IF xs = <<>> THEN 0 ELSE Max(Head(xs), MaxOf(Tail(xs)))

\* HeuristicStrategy._score_move(state, move, player_idx, point_diff)
score_move(s, m, player_idx, point_diff) ==
    LET my_points == point_total(s.players[player_idx])
        opp_points == point_total(s.players[1 - player_idx])
        threshold == point_threshold(s, player_idx)
        is_behind == point_diff < -3
        is_behind_big == point_diff < -8
        is_opening == s.turn_number <= 3
        is_midgame == 4 <= s.turn_number /\ s.turn_number <= 8
        revive(c) == IF rank(c) = JACK THEN 600
                     ELSE IF rank(c) = TEN THEN 550
                     ELSE IF rank(c) = KING THEN 500
                     ELSE IF point_value(c) >= 8 THEN 400 + point_value(c) * 10
                     ELSE IF point_value(c) >= 7 THEN 300
                     ELSE 0
        best_revive_score == MaxOf(MapSeq(s.scrap, revive))
    IN  CASE m.type = "PLAY_POINTS" ->
               LET v == point_value(m.card[1])
               IN  IF my_points + v >= threshold THEN 10000
                   ELSE IF v >= 8 THEN 800 + v * 10
                   ELSE IF v >= 5 THEN 400 + v * 10
                   ELSE 200 + v * 10
          [] m.type = "SCUTTLE" ->
               LET value_gained == point_value(m.target[1]) - point_value(m.card[1])
                   opp_threshold == point_threshold(s, 1 - player_idx)
               IN  IF opp_points >= opp_threshold - point_value(m.target[1]) THEN 5000
                   ELSE IF is_behind_big /\ value_gained >= 5 THEN 100 + value_gained * 10
                   ELSE 20 + value_gained
          [] m.type = "PLAY_PERMANENT" ->
               IF rank(m.card[1]) = KING THEN 600
               ELSE IF rank(m.card[1]) = JACK /\ m.target # None
                    THEN LET base == 400 + point_value(m.target[1]) * 25
                         IN  IF is_behind_big THEN base + 200
                             ELSE IF is_behind THEN base + 100
                             ELSE base
               ELSE IF rank(m.card[1]) = QUEEN THEN 100
               ELSE IF rank(m.card[1]) = EIGHT THEN 50
               ELSE 0
          [] m.type = "PLAY_ONE_OFF" ->
               IF m.effect = "ACE_SCRAP_ALL_POINTS"
               THEN IF is_behind_big THEN (IF is_opening THEN 700 ELSE 500)
                    ELSE IF is_behind THEN 150
                    ELSE -100
               ELSE IF m.effect = "TWO_DESTROY_PERMANENT" THEN 120
               ELSE IF m.effect = "THREE_REVIVE"
                    THEN IF best_revive_score > 0
                         THEN IF is_behind_big THEN best_revive_score + 100
                              ELSE IF is_behind \/ point_diff = 0 THEN best_revive_score
                              ELSE best_revive_score - 100
                         ELSE 50
               ELSE IF m.effect = "FOUR_DISCARD"
                    THEN IF is_opening THEN 350 ELSE IF is_midgame THEN 150 ELSE 100
               ELSE IF m.effect = "FIVE_DRAW_TWO"
                    THEN IF is_opening THEN 300 ELSE IF is_midgame THEN 200 ELSE 150
               ELSE IF m.effect = "SIX_SCRAP_ALL_PERMANENTS"
                    THEN IF Len(s.players[1 - player_idx].permanents)
                              >= Len(s.players[player_idx].permanents) + 3
                         THEN 200 ELSE 30
               ELSE IF m.effect = "SEVEN_PLAY_FROM_DECK"
                    THEN IF is_opening THEN 350 ELSE IF is_midgame THEN 250 ELSE 150
               ELSE 100
          [] m.type = "COUNTER" ->
               IF s.counter_state # None
               THEN LET threat_rank == rank(s.counter_state[1].one_off_card)
                    IN  IF threat_rank = ACE THEN 400
                        ELSE IF threat_rank = FIVE THEN 350
                        ELSE IF threat_rank = FOUR THEN 100
                        ELSE IF threat_rank = TWO THEN 80
                        ELSE 50
               ELSE 100
          [] m.type = "DECLINE_COUNTER" ->
               IF s.counter_state # None
               THEN LET threat_rank == rank(s.counter_state[1].one_off_card)
                    IN  IF threat_rank \in {SIX, THREE, SEVEN} THEN 200
                        ELSE IF threat_rank \in {TWO, FOUR} THEN 150
                        ELSE IF threat_rank = FIVE THEN 50
                        ELSE IF threat_rank = ACE THEN -50
                        ELSE 100
               ELSE 100
          [] m.type = "DRAW" -> 250
          [] m.type = "PASS" -> 0
          [] m.type = "DISCARD" -> 10 - point_value(m.card[1])
          [] m.type = "RESOLVE_SEVEN" ->
               IF m.play_as = "PLAY_ONE_OFF"
               THEN IF rank(m.card[1]) = FIVE THEN 400
                    ELSE IF rank(m.card[1]) = ACE
                         THEN (IF opp_points > my_points THEN 350 ELSE 100)
                    ELSE 250
               ELSE IF m.play_as = "PLAY_POINTS"
                    THEN IF my_points + point_value(m.card[1]) >= threshold THEN 10000
                         ELSE 200 + point_value(m.card[1]) * 10
               ELSE IF m.play_as = "SCUTTLE"
                    THEN IF m.target # None
                         THEN 50 + (point_value(m.target[1]) - point_value(m.card[1]))
                         ELSE 50
               ELSE IF m.play_as = "PLAY_PERMANENT"
                    THEN IF rank(m.card[1]) = KING THEN 500
                         ELSE IF rank(m.card[1]) = JACK /\ m.target # None
                              THEN 400 + point_value(m.target[1]) * 25
                         ELSE 100
               ELSE 100
          [] OTHER -> 0

\* the exceptions of the strategies, told apart by their class
ValueError == [raised |-> TRUE, error |-> "ValueError"]

TypeError == [raised |-> TRUE, error |-> "TypeError"]

\* what a search hands back: the value returned or the exception raised by
\* select_move, and the root's children in insertion order when the search built
\* a tree
Outcome(result, children) == [result |-> result, children |-> children]

\* RandomStrategy.select_move: rng.choice(legal_moves), any element
random_select_move(s, moves) ==
    IF moves = <<>> THEN {Outcome(ValueError, <<>>)}
    ELSE {Outcome(m, <<>>) : m \in Range(moves)}

\* HeuristicStrategy.select_move: rng.choice among the moves of the best score
heuristic_select_move(s, moves) ==
    IF moves = <<>> THEN {Outcome(ValueError, <<>>)}
    ELSE LET player_idx == s.current_player
             point_diff == point_total(s.players[player_idx])
                              - point_total(s.players[1 - player_idx])
             score(m) == score_move(s, m, player_idx, point_diff)
         IN  {Outcome(m, <<>>) :
                 m \in {b \in Range(moves) : \A o \in Range(moves) : score(o) <= score(b)}}

----------------------------------------------------------------------------
(* strategies/mcts.py                                                      *)

\* MCTSNode(state=s): __post_init__ scores every legal move of s with
\* heuristic._score_move(self.state, m), a call that lacks the arguments
\* player_idx and point_diff and raises TypeError at the first move
MCTSNode(s) ==
    IF generate_legal_moves(s) # <<>> THEN TypeError
    ELSE [state |-> s, children |-> <<>>, untried_moves |-> <<>>, visits |-> 0,
          wins |-> 0, player_just_moved |-> None]

\* MCTSStrategy.select_move. A root that was built has no untried move and no
\* child: an iteration selects and expands nothing, its rollout from the root's
\* state is 0.5 and the backpropagation skips the root, so the search ends in
\* rng.choice(legal_moves)
mcts_select_move(s, moves, iterations) ==
    IF moves = <<>> THEN {Outcome(ValueError, <<>>)}
    ELSE IF Len(moves) = 1 THEN {Outcome(moves[1], <<>>)}
    ELSE IF Raised(MCTSNode(s)) THEN {Outcome(MCTSNode(s), <<>>)}
    ELSE {Outcome(m, <<>>) : m \in Range(moves)}

----------------------------------------------------------------------------
(* strategies/ismcts.py                                                    *)

MaxDeterminizations == 2

\* _get_acting_player, the same in mcts.py, ismcts.py and session_manager.py
get_acting_player(s) ==
    IF s.phase = "COUNTER" THEN waiting_for_player(s.counter_state[1])
    ELSE IF s.phase = "DISCARD_FOUR" THEN s.four_state[1].player
    ELSE IF s.phase = "RESOLVE_SEVEN" THEN s.seven_state[1].player
    ELSE s.current_player

\* _determinize: the cards with no known location, in the order the shuffle of
\* generator state k leaves them, fill the opponent's hand and then the deck
determinize(s, perspective_player, known_cards, k) ==
    LET opp == 1 - perspective_player
        known_locations ==
            Range(s.players[perspective_player].hand)
            \cup UNION {Range(s.players[i].points_field) \cup Range(s.players[i].permanents)
                           \cup Range(PairCards(s.players[i].jacks)) : i \in {0, 1}}
            \cup Range(s.scrap)
            \cup (IF s.seven_state # None THEN Range(s.seven_state[1].revealed_cards) ELSE {})
            \cup known_cards
        unknown_cards == shuffle_deck(SelectSeq(create_deck, LAMBDA c : c \notin known_locations), k)
        opp_hand_size == Min(Len(s.players[opp].hand), Len(unknown_cards))
    IN  [s EXCEPT !.players[opp].hand = SubSeq(unknown_cards, 1, opp_hand_size),
                  !.deck = SubSeq(unknown_cards, opp_hand_size + 1, Len(unknown_cards))]

\* _simulate, in tenths: a finished game is 10, 0 or 5 for the perspective player;
\* a playout of the random strategy from an unfinished one can end in a win, a
\* loss, a draw or at the depth limit with 7, 3 or 5
simulate(s, perspective_player) ==
    IF is_game_over(s)
    THEN {IF s.winner = Some(perspective_player) THEN 10 ELSE 0}
    ELSE {0, 3, 5, 7, 10}

\* ISMCTSNode(move = move), a node of the tree without visits; children are kept
\* in insertion order
ISMCTSNode(move) ==
    [move |-> move, visits |-> 0, wins |-> 0, availability_count |-> 0, children |-> <<>>]

\* the nodes below node in the tree, at any depth: its children and theirs
RECURSIVE descendants(_)
descendants(node) ==
    Range(node.children) \cup UNION {descendants(c) : c \in Range(node.children)}

\* the children of a node reached, with no availability added: a child is created
\* for every legal move that has none
mark_nothing(children, legal) ==
    LET fresh == SelectSeq(legal, LAMBDA m : \A i \in DOMAIN children : children[i].move # m)
    IN  <<>> \o children \o MapSeq(fresh, ISMCTSNode)

\* "Mark available children": the children of a node reached with legal_moves,
\* one created for every move that has none, each child of a legal move with one
\* more availability
mark_available(children, legal) ==
    LET fresh == SelectSeq(legal, LAMBDA m : \A i \in DOMAIN children : children[i].move # m)
    IN  <<>> \o MapSeq(children \o MapSeq(fresh, ISMCTSNode), LAMBDA c :
                          IF c.move \in Range(legal)
                          THEN [c EXCEPT !.availability_count = @ + 1] ELSE c)

\* a node of the path updated with the rollout's result whoever made its move
update_unflipped(node, player_just_moved, perspective_player, result) ==
    [node EXCEPT !.visits = @ + 1, !.wins = @ + result]

\* the backpropagation of a node of the path other than the root: update(result)
\* when the player who made its move is the perspective player, else
\* update(1 - result); in tenths
backpropagate(node, player_just_moved, perspective_player, result) ==
    [node EXCEPT !.visits = @ + 1,
                 !.wins = @ + IF player_just_moved = perspective_player THEN result ELSE 10 - result]

\* the selection and expansion loop of _run_iteration from node, reached in the
\* determinized game at current_state, with the simulation and the
\* backpropagation of the nodes below node: the node afterwards and the rollout's
\* result, in tenths. Every legal move gets a child and one more availability; an
\* unvisited one is chosen by rng.choice and the loop ends, else the available
\* child of the best UCB1 value, a float taken here as any available child, and
\* the loop goes on below it; execute_move is not guarded, so its
\* IllegalMoveError leaves select_move; the child on the path gets one visit and
\* result, or 1 - result when the player acting at current_state is not the
\* perspective player
RECURSIVE select_and_expand(_, _, _)
select_and_expand(node, current_state, perspective_player) ==
    LET acting_player == get_acting_player(current_state)
        update(ch, i, child, r) ==
            [node EXCEPT !.children = [ch EXCEPT ![i] =
                                          backpropagate(child, acting_player, perspective_player, r)]]
        step(moves, ch) ==
            LET available == {i \in DOMAIN ch : ch[i].move \in Range(moves)}
                unvisited == {i \in available : ch[i].visits = 0}
            IN  UNION {UNION {IF Raised(post) THEN {post}
                              ELSE IF unvisited # {}
                              THEN {[node |-> update(ch, i, ch[i], r), result |-> r]
                                      : r \in simulate(post, perspective_player)}
                              ELSE {IF Raised(below) THEN below
                                    ELSE [node |-> update(ch, i, below.node, below.result),
                                          result |-> below.result]
                                      : below \in select_and_expand(ch[i], post, perspective_player)}
                                : post \in {execute_move(current_state, ch[i].move)}}
                         : i \in IF unvisited # {} THEN unvisited ELSE available}
    IN  UNION {IF is_game_over(current_state) \/ moves = <<>>
               THEN {[node |-> node, result |-> r] : r \in simulate(current_state, perspective_player)}
               ELSE UNION {step(moves, ch) : ch \in {mark_available(node.children, moves)}}
                 : moves \in {generate_legal_moves(current_state)}}

\* _run_iteration on the root and the determinized state d: the path below the
\* root, then one visit and no win for the root
run_iteration(root, d, perspective_player) ==
    {IF Raised(o) THEN o ELSE [o.node EXCEPT !.visits = @ + 1]
       : o \in select_and_expand(root, d, perspective_player)}

\* the loop of select_move: iterations times, sample one of the determinized
\* states ds and run one iteration on it
RECURSIVE ismcts_iterations(_, _, _, _)
ismcts_iterations(root, ds, perspective_player, iterations) ==
    IF iterations = 0 THEN {root}
    ELSE UNION {IF Raised(o) THEN {o}
                ELSE ismcts_iterations(o, ds, perspective_player, iterations - 1)
                  : o \in UNION {run_iteration(root, d, perspective_player) : d \in ds}}

\* ISMCTSStrategy.select_move: max(root.children.items(), key = visits) is the
\* first child in insertion order of the greatest visit count, and raises
\* ValueError when the root has no child
ismcts_select_move(s, moves, iterations, known_cards) ==
    IF moves = <<>> THEN {Outcome(ValueError, <<>>)}
    ELSE IF Len(moves) = 1 THEN {Outcome(moves[1], <<>>)}
    ELSE {IF Raised(root) THEN Outcome(root, <<>>)
          ELSE IF root.children = <<>> THEN Outcome(ValueError, <<>>)
          ELSE LET ch == root.children
                   best == CHOOSE i \in DOMAIN ch :
                              /\ \A j \in DOMAIN ch : ch[j].visits <= ch[i].visits
                              /\ \A j \in 1..(i - 1) : ch[j].visits < ch[i].visits
               IN  [result |-> ch[best].move, children |-> ch, visits |-> root.visits,
                    wins |-> root.wins]
            : root \in UNION {ismcts_iterations(ISMCTSNode(None), ds,
                                                get_acting_player(s), iterations)
                                 : ds \in {{determinize(s, get_acting_player(s), known_cards, k)
                                              : k \in 1..MaxDeterminizations}}}}

----------------------------------------------------------------------------
(* Strategy.select_move(state, legal_moves)                                *)

MaxIterations == 2

\* the strategy object asked: its class, its iterations and, for ISMCTS, the
\* cards it has tracked (none before on_game_start)
StrategyObject(name, iterations) ==
    [strategy |-> name, iterations |-> iterations, known_cards |-> {}]

select_move(strategy, s, moves) ==
    CASE strategy.strategy = "Random" -> random_select_move(s, moves)
      [] strategy.strategy = "Heuristic" -> heuristic_select_move(s, moves)
      [] strategy.strategy = "MCTS" -> mcts_select_move(s, moves, strategy.iterations)
      [] strategy.strategy = "ISMCTS" ->
             ismcts_select_move(s, moves, strategy.iterations, strategy.known_cards)

\* player 0 is to move in the Main phase; the caller passes the generator's list
\* or the list GameSession.legal_moves offers when the hand limit is reached,
\* the generator's without Draw; script holds the strategy object
StrategyInit ==
    /\ state \in
          {WinBoard(k0, 0, pf0, pf1, <<>>, h0, <<Card(TWO, 2)>>, <<Card(NINE, 0), Card(ACE, 0)>>) :
              k0 \in {0, 1},
              pf0 \in {<<>>, <<Card(TEN, 1), Card(TWO, 1)>>},
              pf1 \in {<<>>, <<Card(NINE, 2)>>, <<Card(NINE, 2), Card(THREE, 2)>>},
              h0 \in {<<Card(JACK, 0), Card(EIGHT, 0)>>,
                      <<Card(JACK, 0), Card(EIGHT, 0), Card(FIVE, 0)>>}}
    /\ legal_moves \in {generate_legal_moves(state),
                        SelectSeq(generate_legal_moves(state), LAMBDA m : m # Draw)}
    /\ script \in {<<StrategyObject(name, 0)>> : name \in {"Random", "Heuristic"}}
                  \cup {<<StrategyObject(name, n)>> :
                           name \in {"MCTS", "ISMCTS"}, n \in 0..MaxIterations}
    /\ move_count = 0
    /\ last_move = None

\* one call of select_move; last_move holds what it handed back
SelectMove ==
    /\ move_count = 0
    /\ \E o \in select_move(script[1], state, legal_moves) : last_move' = Some(o)
    /\ move_count' = move_count + 1
    /\ UNCHANGED <<state, legal_moves, script>>

StrategySpec == StrategyInit /\ [][SelectMove]_vars

----------------------------------------------------------------------------
(* web/api/session_manager.py, web/api/routes/games.py                     *)

MaxSessionMoves == 3

\* GameSession.legal_moves: the generator's list, without Draw when the session
\* has a hand limit and the acting player's hand has reached it
session_legal_moves(session, s) ==
    LET moves == generate_legal_moves(s)
    IN  IF /\ session.hand_limit # None
           /\ Len(s.players[get_acting_player(s)].hand) >= session.hand_limit[1]
        THEN SelectSeq(moves, LAMBDA m : m.type # "DRAW")
        ELSE moves

\* GameSession.is_human_turn
is_human_turn(session, s) == session.player_configs[get_acting_player(s) + 1] = "human"

\* GameSession.execute_move after the engine accepted the move: the record it
\* appends to move_history
move_record(s, move) ==
    [turn |-> s.turn_number, player |-> get_acting_player(s), move |-> move,
     hands_before |-> <<s.players[0].hand, s.players[1].hand>>]

\* GameSessionManager.run_ai_turn: the move made (None when the turn is not an
\* AI's, the offered list is empty or the engine refuses the move) with the
\* session's state and move_history afterwards. A strategy that raises is
\* answered with legal_moves[0]
run_ai_turn(session, s, move_history) ==
    LET nothing == [move |-> None, state |-> s, move_history |-> move_history]
        strategy == session.strategies[get_acting_player(s) + 1]
    IN  IF is_game_over(s) THEN {nothing}
        ELSE IF is_human_turn(session, s) THEN {nothing}
        ELSE IF strategy = None THEN {nothing}
        ELSE UNION {IF offered = <<>> THEN {nothing}
                    ELSE UNION {UNION {IF Raised(post) THEN {nothing}
                                       ELSE {[move |-> Some(move), state |-> post,
                                              move_history |->
                                                 Append(move_history, move_record(s, move))]}
                                         : post \in {execute_move(s, move)}}
                                  : move \in {IF Raised(o.result) THEN offered[1] ELSE o.result
                                                : o \in select_move(strategy[1], s, offered)}}
                      : offered \in {session_legal_moves(session, s)}}

\* GameSessionManager.run_ai_turns_until_human
RECURSIVE run_ai_turns_until_human(_, _, _)
run_ai_turns_until_human(session, s, move_history) ==
    IF is_game_over(s) \/ is_human_turn(session, s)
    THEN {[state |-> s, move_history |-> move_history]}
    ELSE UNION {IF r.move # None
                THEN run_ai_turns_until_human(session, r.state, r.move_history)
                ELSE {[state |-> r.state, move_history |-> r.move_history]}
                  : r \in run_ai_turn(session, s, move_history)}

\* a session in play: script holds the GameSession (player_configs, strategies,
\* hand_limit), state its state, last_move its move_history and legal_moves the
\* list GameSession.legal_moves offers for the state
SessionInit ==
    /\ script \in
          {<<[player_configs |-> <<IF s0 = None THEN "human" ELSE "ai",
                                   IF s1 = None THEN "human" ELSE "ai">>,
              strategies |-> <<s0, s1>>,
              hand_limit |-> hand_limit]>> :
              s0 \in {None, Some(StrategyObject("Random", 0)), Some(StrategyObject("Heuristic", 0)),
                      Some(StrategyObject("MCTS", 1)), Some(StrategyObject("ISMCTS", 1))},
              s1 \in {None, Some(StrategyObject("Random", 0))},
              hand_limit \in {None, Some(1), Some(3)}}
    /\ state \in
          {WinBoard(0, 0, <<>>, pf1, <<>>, h0, <<Card(TWO, 2)>>, <<Card(NINE, 0), Card(ACE, 0)>>) :
              pf1 \in {<<>>, <<Card(NINE, 2)>>},
              h0 \in {<<Card(JACK, 0), Card(EIGHT, 0)>>,
                      <<Card(JACK, 0), Card(EIGHT, 0), Card(FIVE, 0)>>}}
    /\ legal_moves = session_legal_moves(script[1], state)
    /\ move_count = 0
    /\ last_move = <<>>

\* POST /games/{game_id}/move: the human's move index into the offered list, the
\* move executed, then the AI turns until a human has to act
MakeMove ==
    /\ move_count < MaxSessionMoves
    /\ ~is_game_over(state)
    /\ is_human_turn(script[1], state)
    /\ \E move_index \in DOMAIN session_legal_moves(script[1], state) :
          LET move == session_legal_moves(script[1], state)[move_index]
          IN  \E post \in {execute_move(state, move)} :
                 IF Raised(post) THEN UNCHANGED <<state, last_move>>
                 ELSE \E r \in run_ai_turns_until_human(script[1], post,
                                                        Append(last_move, move_record(state, move))) :
                         /\ state' = r.state
                         /\ last_move' = r.move_history
    /\ legal_moves' = session_legal_moves(script[1], state')
    /\ move_count' = move_count + 1
    /\ UNCHANGED script

\* one call of GameSessionManager.run_ai_turn on the session
RunAiTurn ==
    /\ move_count < MaxSessionMoves
    /\ \E r \in run_ai_turn(script[1], state, last_move) :
          /\ state' = r.state
          /\ last_move' = r.move_history
    /\ legal_moves' = session_legal_moves(script[1], state')
    /\ move_count' = move_count + 1
    /\ UNCHANGED script

SessionSpec == SessionInit /\ [][MakeMove \/ RunAiTurn]_vars

----------------------------------------------------------------------------
(* MCTSStrategy.select_move, ISMCTSStrategy.select_move in every phase     *)

MaxSearchIterations == 3

\* states in which a searching player is asked, with the cards an ISMCTS player
\* has tracked through on_game_start and on_move_made: in Main with two moves, the
\* opponent's Two unseen or seen before it came back to the hand; in Counter,
\* as the player waited for, the pending Five seen (runner.py notifies every
\* move) or not (a caller of select_move that does not); in ResolveSeven with a Jack
\* revealed, a card to steal in the opponent's points field and one under the
\* opponent's Jack; in Main after the opponent played a King, seen by
\* on_move_made, and the player's Nine returned it to the opponent's hand
SearchInit ==
    /\ \E b \in {<<WinBoard(0, 0, <<>>, <<>>, <<>>, <<Card(QUEEN, 0)>>, <<Card(TWO, 2)>>,
                            <<Card(NINE, 0), Card(ACE, 0)>>), known_cards>>
                    : known_cards \in {{}, {Card(QUEEN, 0)}, {Card(QUEEN, 0), Card(TWO, 2)}}}
                 \cup
                 {<<execute_move(WinBoard(0, 0, <<>>, <<>>, <<>>, <<Card(FIVE, 0), Card(QUEEN, 0)>>,
                                          <<Card(TWO, 2)>>, <<Card(NINE, 0), Card(ACE, 0), Card(TEN, 0)>>),
                                 PlayOneOff(Card(FIVE, 0), "FIVE_DRAW_TWO", None, None)), known_cards>>
                    : known_cards \in {{Card(TWO, 2)}, {Card(TWO, 2), Card(FIVE, 0)}}}
                 \cup
                 {<<execute_move(execute_move(
                        WinBoard(0, 0, <<>>, <<Card(NINE, 2)>>, <<<<Card(JACK, 2), Card(ACE, 1)>>>>,
                                 <<Card(SEVEN, 0), Card(EIGHT, 0)>>, <<Card(FOUR, 2)>>,
                                 <<Card(JACK, 0), Card(ACE, 0)>>),
                        PlayOneOff(Card(SEVEN, 0), "SEVEN_PLAY_FROM_DECK", None, None)),
                        DeclineCounter),
                    {Card(SEVEN, 0), Card(EIGHT, 0)}>>}
                 \cup
                 {<<execute_move(execute_move(execute_move(execute_move(
                        WinBoard(0, 0, <<>>, <<>>, <<>>, <<Card(KING, 2)>>,
                                 <<Card(NINE, 3), Card(QUEEN, 0)>>,
                                 <<Card(NINE, 0), Card(ACE, 0), Card(FIVE, 1), Card(SIX, 1)>>),
                        PlayPermanent(Card(KING, 2), None)),
                        PlayOneOff(Card(NINE, 3), "NINE_RETURN_PERMANENT", Some(Card(KING, 2)), Some(0))),
                        DeclineCounter),
                        Draw),
                    {Card(NINE, 3), Card(QUEEN, 0), Card(KING, 2)}>>} :
          /\ state = b[1]
          /\ script \in {<<[StrategyObject(name, n) EXCEPT !.known_cards = b[2]]>>
                           : name \in {"MCTS", "ISMCTS"}, n \in 1..MaxSearchIterations}
    /\ legal_moves = generate_legal_moves(state)
    /\ move_count = 0
    /\ last_move = None

SearchSpec == SearchInit /\ [][SelectMove]_vars

\* C26: whatever the strategy (Random, Heuristic, MCTS, ISMCTS), the state and the
\* non-empty list legal_moves the caller passes, the generator's or the session's
\* list without Draw, select_move returns an element of that list
C26_SelectsFromList ==
    (move_count = 1 /\ legal_moves # <<>>) => last_move[1].result \in Range(legal_moves)

\* C27: after all iterations a search (MCTS, ISMCTS) asked with at least two moves
\* returns the root child of the greatest visit count; among the children tied on
\* visits the one of the greatest wins/visits, and among those still tied one of
\* the greatest heuristic score
C27_MostVisitedChild ==
    (/\ move_count = 1
     /\ script[1].strategy \in {"MCTS", "ISMCTS"}
     /\ script[1].iterations > 0
     /\ Len(legal_moves) >= 2)
    => LET ch == last_move[1].children
           player_idx == get_acting_player(state)
           point_diff == point_total(state.players[player_idx])
                            - point_total(state.players[1 - player_idx])
           score(i) == score_move(state, ch[i].move, player_idx, point_diff)
       IN  \E i \in DOMAIN ch :
              /\ ch[i].move = last_move[1].result
              /\ \A j \in DOMAIN ch :
                    /\ ch[j].visits <= ch[i].visits
                    /\ ch[j].visits = ch[i].visits
                          => /\ ch[j].wins * ch[i].visits <= ch[i].wins * ch[j].visits
                             /\ ch[j].wins * ch[i].visits = ch[i].wins * ch[j].visits
                                   => score(j) <= score(i)

\* C28: a search (MCTS, ISMCTS) constructed with iterations = 0 and asked on a state
\* with at least two legal moves reports the request as the contract error of
\* select_move, a ValueError: no move is returned and the state is unchanged
C28_ZeroIterations ==
    [][(/\ move_count = 0
        /\ script[1].strategy \in {"MCTS", "ISMCTS"}
        /\ script[1].iterations = 0
        /\ Len(generate_legal_moves(state)) >= 2
        /\ Len(legal_moves) >= 2)
       => /\ last_move'[1].result = ValueError
          /\ state' = state]_vars

\* C29: heuristic dominance. For every state and every two moves m1, m2 of the
\* generator for it: when executing m1 brings the acting player to their point
\* threshold at once and executing m2 does not, the heuristic scores m1 strictly
\* higher than m2
C29_HeuristicDominance ==
    LET player_idx == state.current_player
        point_diff == point_total(state.players[player_idx])
                         - point_total(state.players[1 - player_idx])
        score(m) == score_move(state, m, player_idx, point_diff)
        reaches(m) == LET post == execute_move(state, m)
                      IN  /\ ~Raised(post)
                          /\ point_total(post.players[player_idx])
                                >= point_threshold(post, player_idx)
    IN  get_acting_player(state) = player_idx
        => \A m1, m2 \in Range(generate_legal_moves(state)) :
              (reaches(m1) /\ ~reaches(m2)) => score(m1) > score(m2)

\* C30: in a session with hand_limit = L no Draw is executed, by a human's move
\* index or by run_ai_turn with any strategy, for a player whose hand holds at
\* least L cards; the offered list is the generator's list with at most the Draw
\* removed, and it is not empty while the game is not over
C30_HandLimit ==
    script[1].hand_limit # None
    => /\ \A i \in DOMAIN last_move :
             last_move[i].move.type = "DRAW"
             => Len(last_move[i].hands_before[last_move[i].player + 1]) < script[1].hand_limit[1]
       /\ Range(legal_moves) \subseteq Range(generate_legal_moves(state))
       /\ SelectSeq(legal_moves, LAMBDA m : m.type # "DRAW")
             = SelectSeq(generate_legal_moves(state), LAMBDA m : m.type # "DRAW")
       /\ ~is_game_over(state) => legal_moves # <<>>

\* C31: MCTS backpropagation. A search of k >= 1 iterations on a state with at least
\* two moves carries its iterations out, and each of them gives every non-root node
\* of its path one visit and the rollout's result, or 1 - result, from the
\* perspective of the node's player_just_moved: a root child is on every path, so
\* some root child is visited, none more than k times, and the wins of each lie
\* between 0 and its visits (in tenths)
C31_BackpropagationPerspective ==
    (/\ move_count = 1
     /\ script[1].strategy = "MCTS"
     /\ script[1].iterations >= 1
     /\ Len(legal_moves) >= 2)
    => LET ch == last_move[1].children
       IN  /\ ~Raised(last_move[1].result)
           /\ \E i \in DOMAIN ch : ch[i].visits >= 1
           /\ \A i \in DOMAIN ch : /\ ch[i].visits <= script[1].iterations
                                   /\ ch[i].wins \in 0..(10 * ch[i].visits)

\* C32: MCTS root statistics. Every completed iteration adds one to the root's
\* visits, so a search of k >= 1 iterations ends with root.visits = k, and a root
\* child that was visited has a finite UCB1 value, its parent's visits being
\* at least 1
C32_RootStatistics ==
    (/\ move_count = 1
     /\ script[1].strategy = "MCTS"
     /\ script[1].iterations >= 1
     /\ Len(legal_moves) >= 2)
    => /\ ~Raised(last_move[1].result)
       /\ last_move[1].visits = script[1].iterations

C34_ExecutorFailureSkipped ==
    (move_count = 1 /\ Len(legal_moves) >= 2)
    => /\ ~Raised(last_move[1].result)
       /\ \A c \in Range(last_move[1].children) :
             Raised(execute_move(state, c.move)) => c.visits = 0 /\ c.wins = 0

\* C35: a determinization d of the state s an ISMCTS player p is asked in equals s
\* in p's hand, both boards, the scrap, the phase and its sub-states, the current
\* player and the turn number; the opponent's hand and the deck keep their sizes;
\* each of the 52 cards occurs exactly once in d, the pending one-off and the
\* counter chain counted
C35_DeterminizationConsistent ==
    (move_count = 0 /\ script[1].strategy = "ISMCTS")
    => \A k \in 1..MaxDeterminizations :
          LET p == get_acting_player(state)
              d == determinize(state, p, script[1].known_cards, k)
          IN  /\ d.players[p] = state.players[p]
              /\ [d.players[1 - p] EXCEPT !.hand = <<>>] = [state.players[1 - p] EXCEPT !.hand = <<>>]
              /\ [d EXCEPT !.players = <<>>, !.deck = <<>>] = [state EXCEPT !.players = <<>>, !.deck = <<>>]
              /\ Len(d.players[1 - p].hand) = Len(state.players[1 - p].hand)
              /\ Len(d.deck) = Len(state.deck)
              /\ Len(all_cards(d)) = 52
              /\ Range(all_cards(d)) = Range(create_deck)

\* C36: in the tree an ISMCTS search of k iterations returns with, every iteration
\* marked each child of a legal move once at every node it reached: the root has
\* one child per legal move, each k times available; below a node visited v times
\* no child is available more than v - 1 times (the visit that created the node
\* ends at it); and no node below the root has more visits than availability, so
\* that a visited node has availability_count >= 1 and UCB1's logarithm is defined
C36_Availability ==
    (/\ move_count = 1 /\ script[1].strategy = "ISMCTS" /\ Len(legal_moves) >= 2
     /\ ~Raised(last_move[1].result))
    => LET root == [children |-> last_move[1].children]
       IN  /\ {c.move : c \in Range(root.children)} = Range(legal_moves)
           /\ Len(root.children) = Len(legal_moves)
           /\ \A c \in Range(root.children) : c.availability_count = script[1].iterations
           /\ \A n \in descendants(root) :
                 /\ n.visits <= n.availability_count
                 /\ n.visits >= 1 => n.availability_count >= 1
                 /\ \A g \in Range(n.children) : g.availability_count <= n.visits - 1

\* a search of three iterations has come back to a root child, marked its
\* children and visited one of them; a sibling was available and never visited
C36_Witness ==
    /\ move_count = 1 /\ script[1].strategy = "ISMCTS" /\ Len(legal_moves) >= 2
    /\ ~Raised(last_move[1].result)
    /\ \E c \in Range(last_move[1].children) :
          /\ c.visits = 2
          /\ c.availability_count = 3
          /\ \E g \in Range(c.children) : g.visits = 1 /\ g.availability_count = 1
          /\ \E g \in Range(c.children) : g.visits = 0 /\ g.availability_count = 1

\* C37: after an ISMCTS search that ran its k iterations the root has k visits
\* and no win and its children's visits sum to at most k; a node is credited result when
\* the player acting, by phase, in the state its move was played from is the
\* searching player p and 1 - result otherwise, a root child's wins are the
\* results of its visits, and a root child's results less the results its own
\* children account for, each read back by the player acting after the root
\* child's move, are those of the visits that ended at the root child (in
\* tenths, each within 0..10)
C37_Backpropagation ==
    (/\ move_count = 1 /\ script[1].strategy = "ISMCTS" /\ Len(legal_moves) >= 2
     /\ script[1].iterations >= 1 /\ ~Raised(last_move[1].result))
    => LET out == last_move[1]
           p == get_acting_player(state)
           sum(ch, f(_)) ==
               LET acc[n \in 0..Len(ch)] == IF n = 0 THEN 0 ELSE acc[n - 1] + f(ch[n])
               IN  acc[Len(ch)]
           visits(n) == n.visits
       IN  /\ out.visits = script[1].iterations
           /\ out.wins = 0
           /\ sum(out.children, visits) <= script[1].iterations
           /\ \A c \in Range(out.children) :
                 /\ c.wins \in 0..(10 * c.visits)
                 /\ c.visits >= 1 =>
                       LET post == execute_move(state, c.move)
                           results(g) == IF get_acting_player(post) = p THEN g.wins
                                         ELSE 10 * g.visits - g.wins
                           below == sum(c.children, visits)
                       IN  /\ ~Raised(post)
                           /\ below <= c.visits - 1
                           /\ \A g \in Range(c.children) : g.wins \in 0..(10 * g.visits)
                           /\ c.wins - sum(c.children, results) \in 0..(10 * (c.visits - below))

\* three iterations went through one root child: the first rollout ended at it,
\* the second below it at a move of the opponent, lost for the searching player
\* and so credited to that node in full
C37_Witness ==
    /\ move_count = 1 /\ script[1].strategy = "ISMCTS" /\ script[1].iterations = 3
    /\ ~Raised(last_move[1].result)
    /\ last_move[1].visits = 3
    /\ \E c \in Range(last_move[1].children) :
          /\ c.visits = 2
          /\ c.wins = 3
          /\ get_acting_player(execute_move(state, c.move)) # get_acting_player(state)
          /\ \E g \in Range(c.children) : g.visits = 1 /\ g.wins = 10

\* C38: every executed move changes the phase along Main -> {Main, Counter,
\* GameOver}, Counter -> {Counter, Main, DiscardFour, ResolveSeven, GameOver},
\* ResolveSeven -> {Main, Counter, GameOver}, DiscardFour -> {DiscardFour, Main,
\* GameOver}, and no move is executed in GameOver; DiscardFour is entered only by
\* a DeclineCounter resolving a Four, ResolveSeven only by one resolving a Seven,
\* Counter only by a PlayOneOff or a ResolveSeven played as a one-off
C38_PhaseAutomaton ==
    [][LET from == state.phase
           to == state'.phase
           move == last_move'[1]
           resolving(r) == /\ from = "COUNTER"
                          /\ move.type = "DECLINE_COUNTER"
                          /\ rank(state.counter_state[1].one_off_card) = r
       IN  /\ from = "MAIN" => to \in {"MAIN", "COUNTER", "GAME_OVER"}
           /\ from = "COUNTER" => to \in {"COUNTER", "MAIN", "DISCARD_FOUR", "RESOLVE_SEVEN", "GAME_OVER"}
           /\ from = "RESOLVE_SEVEN" => to \in {"MAIN", "COUNTER", "GAME_OVER"}
           /\ from = "DISCARD_FOUR" => to \in {"DISCARD_FOUR", "MAIN", "GAME_OVER"}
           /\ from # "GAME_OVER"
           /\ (to = "DISCARD_FOUR" /\ from # "DISCARD_FOUR") => resolving(FOUR)
           /\ to = "RESOLVE_SEVEN" => resolving(SEVEN)
           /\ (to = "COUNTER" /\ from # "COUNTER") =>
                 \/ move.type = "PLAY_ONE_OFF"
                 \/ move.type = "RESOLVE_SEVEN" /\ move.play_as = "PLAY_ONE_OFF"
           /\ (to = "COUNTER" /\ from = "COUNTER") => move.type = "COUNTER"]_vars

\* a DeclineCounter has resolved a Seven and the revealed card was played as a
\* one-off, which opened the Counter phase again
C38_Witness ==
    /\ state.phase = "COUNTER"
    /\ last_move # None
    /\ last_move[1].type = "RESOLVE_SEVEN"
    /\ last_move[1].play_as = "PLAY_ONE_OFF"
    /\ move_count >= 3

\* C39: a counter chain holds at most the four Twos, a DiscardFour asks for at
\* most two cards, and from every state in the Counter, DiscardFour or
\* ResolveSeven phase the game, played on with the generator's moves, comes to
\* the Main phase or to GameOver: no such state is left without a move that
\* can be taken
C39_SuspendedPhasesTerminate ==
    /\ [](/\ state.counter_state # None =>
                /\ Len(state.counter_state[1].counter_chain) <= 4
                /\ \A c \in Range(state.counter_state[1].counter_chain) : rank(c) = TWO
          /\ state.four_state # None => state.four_state[1].cards_to_discard \in 1..2)
    /\ (state.phase \in {"COUNTER", "DISCARD_FOUR", "RESOLVE_SEVEN"})
          ~> (state.phase \in {"MAIN", "GAME_OVER"})

====
